---- MODULE Spec2Model ----
(***************************************************************************)
(* The UID lifecycle of the dashboard (server/routes.ts), its store        *)
(* (server/storage.ts over the Mongoose models) and its client of the      *)
(* external bypass service (api-client.ts).                                *)
(*                                                                         *)
(* A request handler is an async function: it runs from one await to the   *)
(* next without interruption, and other handlers run in between.  Each     *)
(* action below is one such stretch: it ends when the awaited store or     *)
(* HTTP call completes and runs the handler up to its next await.          *)
(*                                                                         *)
(* Money is counted in cents: the amounts the dashboard stores have gone    *)
(* through toFixed(2), and the tier prices have two decimals.  A balance    *)
(* is stored as a Number, a binary double: the double written for a        *)
(* balance of c cents is c/100 - e/(25 * 2^59) for a small integer e,       *)
(* which creditsErr keeps, so that arithmetic on the stored number is      *)
(* exact integer arithmetic here.                                          *)
(* Time is a pair [h, ms], hours and milliseconds, so that                 *)
(* "Date.now() + duration * 3600000" adds to h.                            *)
(***************************************************************************)
EXTENDS Integers, Sequences, FiniteSets, TLC

VARIABLES
    credits,    \* UserModel: user id -> credits, to the nearest cent
    creditsErr, \* UserModel: user id -> what the stored number lacks to be
                \* credits/100, in units of 1/(25 * 2^59)
    uids,       \* UidModel: the set of stored documents
    log,        \* ActivityLogModel: the entries, oldest first
    settings,   \* SettingsModel: the settings row, or NoSettings
    now,        \* the server's clock
    lastUsed,   \* ApiKeyModel: key -> the time it was last used, or Never
    ext,        \* the UID values the external service holds
    extLog,     \* the HTTP requests the external service has received
    req,        \* slot -> the handler running in it (its locals and position)
    pre,        \* slot -> the store and the service as the request found them
    nextId,     \* the id the store gives to the next inserted document
    ops         \* requests started so far

vars ==
    <<credits, creditsErr, uids, log, settings, now, lastUsed, ext, extLog, req, pre, nextId,
      ops>>

(* ------------------------------ bounds -------------------------------- *)

MaxOps == 2
\* the hour up to which the clock is advanced
MaxClock == 72

Slots == {1, 2}

(* ------------------------------- data --------------------------------- *)

Users == {"u1", "u2", "admin"}
Owners == {"admin"}
NoUser == "nobody"
UserIds == Users \cup {NoUser}

UidValues == {"ABC123", "DEF456", "XYZ999", "SHORT"}
Durations == {24, 72, 168, 336, 720, 48}
ClientCosts == {0, 1}
UidIds == {1, 2, 3}
Statuses == {"active", "expired", "deleted", "bogus"}

NoUid == [id |-> 0]
NoSettings == [baseUrl |-> "", apiKey |-> ""]
NoResp == [status |-> 0, error |-> "", details |-> "", data |-> "-"]

ZeroTime == [h |-> 0, ms |-> 0]
AddHours(t, n) == [t EXCEPT !.h = @ + n]

\* a > b on two Dates
After(a, b) == a.h > b.h \/ (a.h = b.h /\ a.ms > b.ms)

\* routes.ts: "duration * 3600000" added to Date.now()
HoursLater(t, duration) == AddHours(t, duration)

\* no HTTP exchange has settled
NoResponse == [settled |-> "-"]

\* a request body without daysOld
NoDays == -1

\* no error has been thrown
NoError ==
    [ok |-> TRUE, name |-> "", message |-> "", text |-> "", statusCode |-> 0, cause |-> "ok"]

IdleReq ==
    [pc |-> "idle", kind |-> "-", caller |-> "-", userId |-> "-", uidValue |-> "-",
     duration |-> 0, id |-> 0, status |-> "-", cost |-> 0, currentCredits |-> 0,
     uid |-> NoUid, doc |-> NoUid, extOk |-> FALSE, apiError |-> "-", resp |-> NoResp,
     key |-> "-", by |-> "-", planId |-> 0, days |-> 0, amount |-> 0, operation |-> "-",
     currentErr |-> 0, thrown |-> NoError, stalled |-> FALSE, daysOld |-> NoDays,
     deletedCount |-> 0, response |-> NoResponse, returned |-> FALSE, timer |-> "-",
     client |-> NoSettings, localUids |-> {}, settingsData |-> NoSettings,
     existing |-> FALSE]

(* -------------------------- stored numbers ---------------------------- *)

Pow2(n) == 2 ^ n

\* 2^n modulo 25; the powers of 2 modulo 25 repeat with period 20
Pow2Mod25(n) == (2 ^ (n % 20)) % 25

RECURSIVE BinadeUp(_, _)
BinadeUp(c, e) == IF c < 100 * Pow2(e + 1) THEN e ELSE BinadeUp(c, e + 1)

RECURSIVE BinadeDown(_, _)
BinadeDown(c, k) == IF c * Pow2(k) >= 100 THEN 0 - k ELSE BinadeDown(c, k + 1)

\* the exponent e of the double nearest to c/100: 2^e <= c/100 < 2^(e+1)
Binade(c) == IF c >= 100 THEN BinadeUp(c, 0) ELSE BinadeDown(c, 1)

\* the remainder of t by 25 that is nearest to zero
SymMod25(t) == IF t % 25 > 12 THEN (t % 25) - 25 ELSE t % 25

\* parseFloat of a string with two decimals (storage.updateUserCredits), or a
\* literal with two decimals: the double nearest to c/100. Its 53-bit
\* mantissa is c * 2^(50-e) / 25 rounded to the nearest integer (never a tie,
\* 25 being odd); the result is what the double lacks to be c/100, in units
\* of 1/(25 * 2^59).
parseFloat(c) ==
    IF c = 0 THEN 0
    ELSE LET a == IF c < 0 THEN 0 - c ELSE c
             e == Binade(a)
             rho == SymMod25((a % 25) * Pow2Mod25(50 - e))
         IN  (IF c < 0 THEN 0 - 1 ELSE 1) * rho * Pow2(7 + e)

\* a stored number of c cents with error err rounds to the bound and is
\* under the double nearest to bound/100
Shortfall(c, err, bound) == c = bound /\ err > parseFloat(bound)

\* a variant of Below that only finds a negative number too low
BelowZero(c, err, bound) == c < 0

\* "x < bound" for a stored number x of c cents with error err and a bound
\* that is the double nearest to bound/100
Below(c, err, bound) == c < bound \/ Shortfall(c, err, bound)

\* the session's isOwner flag, set at login from the user's document
isOwner(caller) == caller \in Owners

\* a variant of Authorized that lets every caller through
AuthorizedAnyone(caller, ownerId) == TRUE

\* routes.ts: "!req.session.isOwner && <owner of the target> !== req.session.userId"
\* refuses the request
Authorized(caller, ownerId) == isOwner(caller) \/ ownerId = caller

\* a variant of Insufficient that only refuses a balance already negative
InsufficientBelowZero(currentCredits, cost) == currentCredits < 0

\* routes.ts: "currentCredits < cost" refuses the request
Insufficient(currentCredits, cost) == currentCredits < cost

(* ----------------------------- API keys ------------------------------- *)

\* mongodb-models ApiKeySchema: the key documents; uidLimit 0 and an empty
\* allowedPlans stand for the fields left unset
ApiKeys == {"k1", "k2"}
NoKey == "-"

\* the key documents that are disabled or paused
RefusedKeys == {"k3", "k4"}

\* lastUsed of a key document that has not been used
Never == [h |-> -1, ms |-> 0]

ApiKeyDoc(k) ==
    CASE k = "k1" -> [userId |-> "u1", isEnabled |-> TRUE, isPaused |-> FALSE,
                      uidLimit |-> 1, allowedPlans |-> {2}]
      [] k = "k2" -> [userId |-> "u2", isEnabled |-> TRUE, isPaused |-> FALSE,
                      uidLimit |-> 0, allowedPlans |-> {}]
      [] k = "k3" -> [userId |-> "u1", isEnabled |-> FALSE, isPaused |-> FALSE,
                      uidLimit |-> 0, allowedPlans |-> {}]
      [] k = "k4" -> [userId |-> "u2", isEnabled |-> TRUE, isPaused |-> TRUE,
                      uidLimit |-> 0, allowedPlans |-> {}]

\* db-init.ts DEFAULT_PLANS (the first three, the third one deactivated since),
\* creditsCost in cents; code 0 stands for no plan found
NoPlan == [code |-> 0, days |-> 0, creditsCost |-> 0, isActive |-> FALSE]

PlanModel(code) ==
    CASE code = 1 -> [code |-> 1, days |-> 1, creditsCost |-> 1000, isActive |-> TRUE]
      [] code = 2 -> [code |-> 2, days |-> 3, creditsCost |-> 2500, isActive |-> TRUE]
      [] code = 3 -> [code |-> 3, days |-> 7, creditsCost |-> 5000, isActive |-> FALSE]
      [] OTHER -> NoPlan

\* the apiKeyId of a Uid document, unset on documents the dashboard created
KeyOf(d) == IF "apiKeyId" \in DOMAIN d THEN d.apiKeyId ELSE NoKey

(* ------------------------------ schema -------------------------------- *)

\* a variant of insertUidSchema that accepts every body
insertUidSchemaAny(body) ==
    [ok |-> TRUE,
     data |-> [userId |-> body.userId, uidValue |-> body.uidValue,
               duration |-> body.duration]]

\* shared/schema.ts insertUidSchema: picks userId, uidValue, duration (a cost
\* in the body is stripped), uidValue of 6 to 12 characters, duration > 0.
insertUidSchema(body) ==
    IF /\ Len(body.uidValue) >= 6
       /\ Len(body.uidValue) <= 12
       /\ body.duration > 0
    THEN [ok |-> TRUE,
          data |-> [userId |-> body.userId, uidValue |-> body.uidValue,
                    duration |-> body.duration]]
    ELSE [ok |-> FALSE, data |-> "-"]

updateUidValueSchema(body) ==
    IF Len(body.newUidValue) >= 6 /\ Len(body.newUidValue) <= 12
    THEN [ok |-> TRUE, data |-> [newUidValue |-> body.newUidValue]]
    ELSE [ok |-> FALSE, data |-> "-"]

\* routes.ts pricingTiers, in cents; 0 stands for the undefined of a missing key
pricingTiers(duration) ==
    CASE duration = 24  -> 50
      [] duration = 72  -> 130
      [] duration = 168 -> 233
      [] duration = 336 -> 350
      [] duration = 720 -> 520
      [] OTHER -> 0

(* ------------------------------- store -------------------------------- *)

\* mongodb-models UidSchema: the paths marked required
UidSchemaRequired == {"userId", "region", "planId", "uidValue", "duration", "cost", "expiresAt"}

\* mongodb-models UidSchema: the defaults applied before validation
UidSchemaDefaults(doc) ==
    [f \in DOMAIN doc \cup {"region", "status"} |->
        IF f \in DOMAIN doc THEN doc[f]
        ELSE IF f = "region" THEN "PK" ELSE "active"]

\* Mongoose validation of a new Uid document
UidSchemaValid(doc) == UidSchemaRequired \subseteq DOMAIN UidSchemaDefaults(doc)

\* storage.getUid / convertMongoDoc: the fields the store hands to a handler
ToUid(d) ==
    [id |-> d.id, userId |-> d.userId, uidValue |-> d.uidValue, duration |-> d.duration,
     cost |-> d.cost, status |-> d.status, createdAt |-> d.createdAt,
     expiresAt |-> d.expiresAt]

getUid(id) ==
    IF \E d \in uids : d.id = id
    THEN ToUid(CHOOSE d \in uids : d.id = id)
    ELSE NoUid

getUserUids(userId) == {ToUid(d) : d \in {e \in uids : e.userId = userId}}

(* ------------------------------ client -------------------------------- *)

\* the ways one HTTP exchange with the external service can end
Outcomes == {"ok", "http_error", "api_error", "bad_json", "timeout", "network"}

\* new UIDBypassError(message, code, statusCode): "text" is the literal part
\* of the message and the rest of "message" is the text interpolated into it,
\* statusCode is 0 when the constructor gets none. "cause" records how the
\* exchange ended; it is not a field of the error and no caller can read it.
UIDBypassError(cause, text, detail, statusCode) ==
    [ok |-> FALSE, name |-> "UIDBypassError", message |-> text \o detail, text |-> text,
     statusCode |-> statusCode, cause |-> cause]

\* api-client.ts UIDBypassClient.request: the value returned, or the error thrown
request(outcome) ==
    CASE outcome = "ok"         -> NoError
      [] outcome = "http_error" -> UIDBypassError(outcome, "HTTP error", "", 500)
      [] outcome = "api_error"  -> UIDBypassError(outcome, "uid rejected", "", 200)
      [] outcome = "timeout"    -> UIDBypassError(outcome, "Request timeout", "", 0)
      [] outcome = "bad_json"   -> UIDBypassError(outcome, "Request failed: ",
                                                  "Unexpected token", 0)
      [] outcome = "network"    -> UIDBypassError(outcome, "Request failed: ", "fetch failed", 0)

\* UIDBypassClient.listUIDs with its own fetch: the value returned, or the
\* error thrown. The catch block rethrows a UIDBypassError and wraps every
\* other error, the AbortError of the timer included, in the same way.
listUIDs(outcome) ==
    CASE outcome = "ok"         -> NoError
      [] outcome = "http_error" -> UIDBypassError(outcome, "HTTP 500", "", 500)
      [] outcome = "api_error"  -> UIDBypassError(outcome, "uid rejected", "", 200)
      [] outcome = "timeout"    -> UIDBypassError(outcome, "List UIDs failed: ",
                                                  "This operation was aborted", 0)
      [] outcome = "bad_json"   -> UIDBypassError(outcome, "List UIDs failed: ",
                                                  "Unexpected token", 0)
      [] outcome = "network"    -> UIDBypassError(outcome, "List UIDs failed: ",
                                                  "fetch failed", 0)

\* the response bodies: text that is not JSON, the JSON value null, an object
\* without an error field, an object whose error field is the empty string,
\* an object whose error field is a message
Bodies ==
    {[json |-> FALSE, isNull |-> FALSE, hasError |-> FALSE, error |-> ""],
     [json |-> TRUE, isNull |-> TRUE, hasError |-> FALSE, error |-> ""],
     [json |-> TRUE, isNull |-> FALSE, hasError |-> FALSE, error |-> ""],
     [json |-> TRUE, isNull |-> FALSE, hasError |-> TRUE, error |-> ""],
     [json |-> TRUE, isNull |-> FALSE, hasError |-> TRUE, error |-> "uid rejected"]}

\* the ways fetch settles: the timer aborts it, the network fails, or a
\* response arrives with a status and a body
Responses ==
    {[settled |-> "abort"], [settled |-> "network"]}
    \cup [settled : {"response"}, status : {200, 404, 500}, body : Bodies]

\* response.ok
ok(response) == response.status >= 200 /\ response.status <= 299

\* a variant of settle whose catch block rethrows what it does not know
settleRethrowing(response) ==
    LET cleared(e, returned) == [returned |-> returned, thrown |-> e, timer |-> "cleared"]
        data == response.body
    IN  CASE response.settled = "abort" ->
               cleared(UIDBypassError("timeout", "Request timeout", "", 0), FALSE)
          [] response.settled = "network" ->
               cleared([UIDBypassError("network", "fetch failed", "", 0)
                          EXCEPT !.name = "TypeError"], FALSE)
          [] ~data.json ->
               cleared([UIDBypassError("bad_json", "Unexpected token", "", 0)
                          EXCEPT !.name = "SyntaxError"], FALSE)
          [] ~ok(response) /\ data.isNull ->
               cleared([UIDBypassError("http_error", "Cannot read properties of null", "", 0)
                          EXCEPT !.name = "TypeError"], FALSE)
          [] ~ok(response) ->
               cleared(UIDBypassError("http_error",
                                      IF data.error # "" THEN data.error ELSE "HTTP error: ",
                                      "", response.status), FALSE)
          [] ~data.isNull /\ data.error # "" ->
               cleared(UIDBypassError("api_error", data.error, "", response.status), FALSE)
          [] OTHER -> cleared(NoError, TRUE)

\* UIDBypassClient.request from the point where fetch settles: whether the
\* body is returned, the error thrown otherwise, and the state of the timer
\* when the call ends.  clearTimeout runs after fetch resolves and again in the
\* catch block; the catch block turns an AbortError into "Request timeout",
\* rethrows a UIDBypassError and wraps every other error.
settle(response) ==
    LET cleared(e, returned) == [returned |-> returned, thrown |-> e, timer |-> "cleared"]
        data == response.body
    IN  CASE response.settled = "abort" ->
               cleared(UIDBypassError("timeout", "Request timeout", "", 0), FALSE)
          [] response.settled = "network" ->
               cleared(UIDBypassError("network", "Request failed: ", "fetch failed", 0), FALSE)
          [] ~data.json ->
               \* response.json() throws a SyntaxError
               cleared(UIDBypassError("bad_json", "Request failed: ", "Unexpected token", 0),
                       FALSE)
          [] ~ok(response) /\ data.isNull ->
               \* "data.error" on null throws a TypeError
               cleared(UIDBypassError("http_error", "Request failed: ",
                                      "Cannot read properties of null", 0), FALSE)
          [] ~ok(response) ->
               \* data.error || `HTTP error: ${response.statusText}`
               cleared(UIDBypassError("http_error",
                                      IF data.error # "" THEN data.error ELSE "HTTP error: ",
                                      "", response.status), FALSE)
          [] ~data.isNull /\ data.error # "" ->
               \* "data && typeof data === 'object' && data.error"
               cleared(UIDBypassError("api_error", data.error, "", response.status), FALSE)
          [] OTHER -> cleared(NoError, TRUE)

\* a variant of ClientCreate that asks for a base URL only
ClientCreateWithoutKey ==
    IF settings.baseUrl = ""
    THEN UIDBypassError("settings",
                        "API settings not configured. Please configure in Settings page.",
                        "", 0)
    ELSE NoError

\* api-client.ts UIDBypassClient.create: reads the settings row, throws when it
\* is missing or incomplete
ClientCreate ==
    IF settings.baseUrl = "" \/ settings.apiKey = ""
    THEN UIDBypassError("settings",
                        "API settings not configured. Please configure in Settings page.",
                        "", 0)
    ELSE NoError

\* the base URL of an external service that refuses to add a value it holds
RefusingService == "https://refusing.example/api"

\* request and listUIDs call clearTimeout(timeout) as soon as fetch resolves,
\* that is when the response headers have arrived, and read the body after
\* that: no timer is armed while the body is read
armedWhileReadingBody == FALSE

\* the ways a pending exchange can still end: once the headers have arrived
\* and the body has stalled, only the abort of an armed timer ends it
Deliverable(q, outcomes) ==
    IF q.stalled THEN {o \in outcomes : o = "timeout" /\ armedWhileReadingBody}
    ELSE IF /\ q.client.baseUrl = RefusingService
            /\ q.pc \in {"createUID", "createUIDFree"}
            /\ q.uidValue \in ext
    THEN outcomes \ {"ok"}
    ELSE outcomes

\* the external service: a request that is answered with success has taken
\* effect, a request that fails has not
ServiceAfter(action, uid, outcome) ==
    IF outcome # "ok" THEN ext
    ELSE IF action = "remove_uid_api" THEN ext \ {uid}
    ELSE ext \cup {uid}

\* api-client.ts constructor: the client keeps the base URL and the API key it
\* was built with
UIDBypassClient(baseUrl, apiKey) == [baseUrl |-> baseUrl, apiKey |-> apiKey]

\* fetch(url, {headers: {"X-API-Key": apiKey}, body}): the request goes to the
\* client's base URL with the client's key
Sent(client, action, uid) ==
    Append(extLog, [action |-> action, uid |-> uid,
                    baseUrl |-> client.baseUrl, apiKey |-> client.apiKey])

(* ------------------------------ handlers ------------------------------ *)

Snapshot ==
    [credits |-> credits, uids |-> uids, log |-> log, ext |-> ext, extLog |-> extLog,
     lastUsed |-> lastUsed]

NoSnapshot ==
    [credits |-> <<>>, uids |-> {}, log |-> <<>>, ext |-> {}, extLog |-> <<>>,
     lastUsed |-> <<>>]

\* res.status(status).json({error, details, ...}): the handler ends
Reply(q, status, error, details, data) ==
    [q EXCEPT !.pc = "done",
              !.resp = [status |-> status, error |-> error, details |-> details,
                        data |-> data]]

\* the catch blocks of the three handlers that call the external service
CreateApiError(q, e) ==
    [Reply(q, 400, "API Error: " \o e.message, "", "-")
     EXCEPT !.apiError = e.message, !.thrown = e]

\* a variant of DeleteApiError that notes the error and goes on to the local
\* delete
DeleteApiErrorIgnored(q, e) == [q EXCEPT !.pc = "deleteUid", !.apiError = e.message]

DeleteApiError(q, e) ==
    [Reply(q, 500, "Failed to delete UID from external service",
           IF e.name = "UIDBypassError" THEN e.message ELSE "Unknown error", "-")
     EXCEPT !.apiError = e.message, !.thrown = e]

\* a variant of UpdateApiError that notes the error and goes on to the local
\* update
UpdateApiErrorIgnored(q, e) == [q EXCEPT !.pc = "updateUidValue", !.apiError = e.message]

UpdateApiError(q, e) ==
    [Reply(q, 400, "Failed to update UID on external service",
           IF e.name = "UIDBypassError" THEN e.message ELSE "Unknown error", "-")
     EXCEPT !.apiError = e.message, !.thrown = e]

\* a request arrives at a free slot
Arrive(r) ==
    /\ req[r].pc = "idle"
    /\ ops < MaxOps
    /\ ops' = ops + 1
    /\ pre' = [pre EXCEPT ![r] = Snapshot]

\* storage.logActivity
logActivity(userId, action) ==
    Append(log, [userId |-> userId, action |-> action, createdAt |-> now])


(* POST /api/uids ------------------------------------------------------- *)

\* up to the first await: parse, ownership, pricing; then storage.getUser
PostUids(r, in) ==
    \E caller \in in.callers,
       body \in [userId : in.userIds, uidValue : in.uidValues, duration : in.durations,
                 cost : ClientCosts] :
        /\ Arrive(r)
        /\ LET parsed == insertUidSchema(body)
               q0 == [IdleReq EXCEPT !.kind = "create", !.caller = caller,
                                     !.userId = body.userId,
                                     !.uidValue = body.uidValue,
                                     !.duration = body.duration]
           IN  req' = [req EXCEPT ![r] =
                 IF ~parsed.ok
                 THEN Reply(q0, 400, "ZodError", "", "-")
                 ELSE IF ~Authorized(caller, parsed.data.userId)
                 THEN Reply(q0, 403, "Can only create UIDs for your own account", "", "-")
                 ELSE IF pricingTiers(parsed.data.duration) = 0
                 THEN Reply(q0, 400, "Invalid duration selected", "", "-")
                 ELSE [q0 EXCEPT !.pc = "getUser",
                                 !.cost = pricingTiers(parsed.data.duration)]]
        /\ UNCHANGED <<credits, creditsErr, uids, log, settings, now, lastUsed, ext, extLog,
                       nextId>>

\* a variant of CreateGetUser that takes the price off the balance as soon as
\* the balance check passes, before the external service is called
CreateGetUserPaysFirst(r) ==
    /\ req[r].kind = "create" /\ req[r].pc = "getUser"
    /\ LET q == req[r]
           refused == q.userId \notin DOMAIN credits
                      \/ Insufficient(credits[q.userId], q.cost)
                      \/ Shortfall(credits[q.userId], creditsErr[q.userId], q.cost)
       IN  /\ req' = [req EXCEPT ![r] =
                 IF q.userId \notin DOMAIN credits
                 THEN Reply(q, 404, "User not found", "", "-")
                 ELSE IF \/ Insufficient(credits[q.userId], q.cost)
                         \/ Shortfall(credits[q.userId], creditsErr[q.userId], q.cost)
                 THEN Reply([q EXCEPT !.currentCredits = credits[q.userId]],
                            400, "Insufficient credits", "", "-")
                 ELSE [q EXCEPT !.currentCredits = credits[q.userId], !.pc = "getSettings"]]
           /\ credits' = IF refused THEN credits
                         ELSE [credits EXCEPT ![q.userId] = @ - q.cost]
           /\ creditsErr' = IF refused THEN creditsErr
                            ELSE [creditsErr EXCEPT ![q.userId] =
                                    parseFloat(credits[q.userId] - q.cost)]
    /\ UNCHANGED <<uids, log, settings, now, lastUsed, ext, extLog, pre, nextId, ops>>

\* storage.getUser returns: balance check; then UIDBypassClient.create
CreateGetUser(r) ==
    /\ req[r].kind = "create" /\ req[r].pc = "getUser"
    /\ LET q == req[r] IN
       req' = [req EXCEPT ![r] =
         IF q.userId \notin DOMAIN credits
         THEN Reply(q, 404, "User not found", "", "-")
         ELSE IF \/ Insufficient(credits[q.userId], q.cost)
                 \/ Shortfall(credits[q.userId], creditsErr[q.userId], q.cost)
         THEN Reply([q EXCEPT !.currentCredits = credits[q.userId]],
                    400, "Insufficient credits", "", "-")
         ELSE [q EXCEPT !.currentCredits = credits[q.userId], !.pc = "getSettings"]]
    /\ UNCHANGED <<credits, creditsErr, uids, log, settings, now, lastUsed, ext, extLog, pre,
                   nextId, ops>>

\* storage.getSettings returns inside UIDBypassClient.create; then createUID
CreateClient(r) ==
    /\ req[r].kind = "create" /\ req[r].pc = "getSettings"
    /\ LET q == req[r] IN
       IF ClientCreate.ok
       THEN /\ req' = [req EXCEPT ![r].pc = "createUID",
                                  ![r].client = UIDBypassClient(settings.baseUrl,
                                                                settings.apiKey)]
            /\ extLog' = Sent(settings, "add_uid_api", q.uidValue)
       ELSE /\ req' = [req EXCEPT ![r] = CreateApiError(q, ClientCreate)]
            /\ extLog' = extLog
    /\ UNCHANGED <<credits, creditsErr, uids, log, settings, now, lastUsed, ext, pre, nextId, ops>>

\* the document routes.ts hands to storage.createUid, as storage.createUid
\* hands it to UidModel.create (planId is not passed on)
CreateUidDoc(q, expiresAt, createdAt) ==
    [userId |-> q.userId, uidValue |-> q.uidValue, duration |-> q.duration,
     cost |-> q.cost, status |-> "active", createdAt |-> createdAt,
     expiresAt |-> expiresAt]

\* a variant of CreateExternal whose client sends the request again when the
\* exchange ends without an answer
CreateExternalRetrying(r, in) ==
    /\ req[r].kind = "create" /\ req[r].pc = "createUID"
    /\ \E outcome \in Deliverable(req[r], in.outcomes) :
        LET q == req[r]
            res == request(outcome)
        IN  /\ ext' = ServiceAfter("add_uid_api", q.uidValue, outcome)
            /\ extLog' = IF outcome \in {"timeout", "network"}
                         THEN Sent(q.client, "add_uid_api", q.uidValue)
                         ELSE extLog
            /\ req' = [req EXCEPT ![r] =
                 IF res.ok
                 THEN [q EXCEPT !.pc = "createUid", !.extOk = TRUE,
                                !.doc = CreateUidDoc(q, HoursLater(now, q.duration), now)]
                 ELSE IF outcome \in {"timeout", "network"} THEN q
                 ELSE CreateApiError(q, res)]
    /\ UNCHANGED <<credits, creditsErr, uids, log, settings, now, lastUsed, pre, nextId, ops>>

\* apiClient.createUID returns or throws; on success expiresAt is computed and
\* storage.createUid is called, which stamps createdAt
CreateExternal(r, in) ==
    /\ req[r].kind = "create" /\ req[r].pc = "createUID"
    /\ \E outcome \in Deliverable(req[r], in.outcomes) :
        LET q == req[r]
            res == request(outcome)
        IN  /\ ext' = ServiceAfter("add_uid_api", q.uidValue, outcome)
            /\ req' = [req EXCEPT ![r] =
                 IF res.ok
                 THEN [q EXCEPT !.pc = "createUid", !.extOk = TRUE,
                                !.doc = CreateUidDoc(q, HoursLater(now, q.duration), now)]
                 ELSE CreateApiError(q, res)]
    /\ UNCHANGED <<credits, creditsErr, uids, log, settings, now, lastUsed, extLog, pre, nextId,
                   ops>>

\* storage.createUid, storage.updateUserCredits, storage.logActivity, res.json
CreateStore(r) ==
    /\ req[r].kind = "create"
    /\ req[r].pc \in {"createUid", "updateUserCredits", "logActivity"}
    /\ LET q == req[r] IN
       CASE q.pc = "createUid" ->
              IF UidSchemaValid(q.doc)
              THEN /\ uids' = uids \cup
                        {[f \in DOMAIN UidSchemaDefaults(q.doc) \cup {"id"} |->
                            IF f = "id" THEN nextId ELSE UidSchemaDefaults(q.doc)[f]]}
                   /\ nextId' = nextId + 1
                   /\ req' = [req EXCEPT ![r].pc = "updateUserCredits"]
                   /\ UNCHANGED <<credits, creditsErr, log>>
              ELSE /\ req' = [req EXCEPT ![r] =
                        Reply(q, 400, "Uid validation failed", "", "-")]
                   /\ UNCHANGED <<credits, creditsErr, uids, log, nextId>>
         [] q.pc = "updateUserCredits" ->
              /\ credits' = [credits EXCEPT ![q.userId] = q.currentCredits - q.cost]
              /\ creditsErr' = [creditsErr EXCEPT ![q.userId] =
                                  parseFloat(q.currentCredits - q.cost)]
              /\ req' = [req EXCEPT ![r].pc = "logActivity"]
              /\ UNCHANGED <<uids, log, nextId>>
         [] q.pc = "logActivity" ->
              /\ log' = logActivity(q.userId, "create_uid")
              /\ req' = [req EXCEPT ![r] =
                    Reply(q, 200, "", "", q.currentCredits - q.cost)]
              /\ UNCHANGED <<credits, creditsErr, uids, nextId>>
    /\ UNCHANGED <<settings, now, lastUsed, ext, extLog, pre, ops>>


(* GET /api/uids/user/:userId ------------------------------------------- *)

GetUserUids(r, in) ==
    \E caller \in in.callers, userId \in in.userIds :
        /\ Arrive(r)
        /\ LET q0 == [IdleReq EXCEPT !.kind = "list", !.caller = caller, !.userId = userId]
           IN  req' = [req EXCEPT ![r] =
                 IF ~Authorized(caller, userId)
                 THEN Reply(q0, 403, "Can only view your own UIDs", "", "-")
                 ELSE [q0 EXCEPT !.pc = "getUserUids"]]
        /\ UNCHANGED <<credits, creditsErr, uids, log, settings, now, lastUsed, ext, extLog,
                       nextId>>

ListReturn(r) ==
    /\ req[r].kind = "list" /\ req[r].pc = "getUserUids"
    /\ req' = [req EXCEPT ![r] = Reply(req[r], 200, "", "", getUserUids(req[r].userId))]
    /\ UNCHANGED <<credits, creditsErr, uids, log, settings, now, lastUsed, ext, extLog, pre,
                   nextId, ops>>

(* DELETE /api/uids/:id ------------------------------------------------- *)

DeleteUids(r, in) ==
    \E caller \in in.callers, id \in in.ids :
        /\ Arrive(r)
        /\ req' = [req EXCEPT ![r] =
              [IdleReq EXCEPT !.kind = "delete", !.caller = caller, !.id = id,
                              !.pc = "getUid"]]
        /\ UNCHANGED <<credits, creditsErr, uids, log, settings, now, lastUsed, ext, extLog,
                       nextId>>

\* storage.getUid returns: existence, ownership; then UIDBypassClient.create
DeleteGetUid(r) ==
    /\ req[r].kind = "delete" /\ req[r].pc = "getUid"
    /\ LET q == req[r]
           uid == getUid(q.id)
       IN  req' = [req EXCEPT ![r] =
             IF uid.id = 0
             THEN Reply(q, 404, "UID not found", "", "-")
             ELSE IF ~Authorized(q.caller, uid.userId)
             THEN Reply([q EXCEPT !.uid = uid], 403, "Can only delete your own UIDs", "", "-")
             ELSE [q EXCEPT !.uid = uid, !.pc = "getSettings"]]
    /\ UNCHANGED <<credits, creditsErr, uids, log, settings, now, lastUsed, ext, extLog, pre,
                   nextId, ops>>

DeleteClient(r) ==
    /\ req[r].kind = "delete" /\ req[r].pc = "getSettings"
    /\ LET q == req[r] IN
       IF ClientCreate.ok
       THEN /\ req' = [req EXCEPT ![r].pc = "deleteUID",
                                  ![r].client = UIDBypassClient(settings.baseUrl,
                                                                settings.apiKey)]
            /\ extLog' = Sent(settings, "remove_uid_api", q.uid.uidValue)
       ELSE /\ req' = [req EXCEPT ![r] = DeleteApiError(q, ClientCreate)]
            /\ extLog' = extLog
    /\ UNCHANGED <<credits, creditsErr, uids, log, settings, now, lastUsed, ext, pre, nextId, ops>>

\* apiClient.deleteUID returns or throws; on success storage.deleteUid is called
DeleteExternal(r, in) ==
    /\ req[r].kind = "delete" /\ req[r].pc = "deleteUID"
    /\ \E outcome \in Deliverable(req[r], in.outcomes) :
        LET q == req[r]
            res == request(outcome)
        IN  /\ ext' = ServiceAfter("remove_uid_api", q.uid.uidValue, outcome)
            /\ req' = [req EXCEPT ![r] =
                 IF res.ok
                 THEN [q EXCEPT !.pc = "deleteUid", !.extOk = TRUE]
                 ELSE DeleteApiError(q, res)]
    /\ UNCHANGED <<credits, creditsErr, uids, log, settings, now, lastUsed, extLog, pre, nextId,
                   ops>>

\* storage.deleteUid, storage.logActivity, res.json
DeleteStore(r) ==
    /\ req[r].kind = "delete"
    /\ req[r].pc \in {"deleteUid", "logActivity"}
    /\ LET q == req[r] IN
       CASE q.pc = "deleteUid" ->
              /\ uids' = {d \in uids : d.id # q.id}
              /\ req' = [req EXCEPT ![r].pc = "logActivity"]
              /\ log' = log
         [] q.pc = "logActivity" ->
              /\ log' = logActivity(q.caller, "delete_uid")
              /\ req' = [req EXCEPT ![r] = Reply(q, 200, "", "", "-")]
              /\ uids' = uids
    /\ UNCHANGED <<credits, creditsErr, settings, now, lastUsed, ext, extLog, pre, nextId, ops>>

(* PATCH /api/uids/:id -------------------------------------------------- *)

PatchUids(r, in) ==
    \E caller \in in.callers, id \in in.ids, status \in in.statuses :
        /\ Arrive(r)
        /\ req' = [req EXCEPT ![r] =
              [IdleReq EXCEPT !.kind = "status", !.caller = caller, !.id = id,
                              !.status = status, !.pc = "getUserUids"]]
        /\ UNCHANGED <<credits, creditsErr, uids, log, settings, now, lastUsed, ext, extLog,
                       nextId>>

\* storage.getUserUids(session user) returns: the record is looked up among the
\* caller's own; then storage.updateUid
PatchGetUids(r) ==
    /\ req[r].kind = "status" /\ req[r].pc = "getUserUids"
    /\ LET q == req[r]
           allUids == getUserUids(q.caller)
           uid == IF \E u \in allUids : u.id = q.id
                  THEN CHOOSE u \in allUids : u.id = q.id
                  ELSE NoUid
       IN  req' = [req EXCEPT ![r] =
             IF uid.id = 0 /\ ~isOwner(q.caller)
             THEN Reply(q, 403, "Can only update your own UIDs", "", "-")
             ELSE [q EXCEPT !.uid = uid, !.pc = "updateUid"]]
    /\ UNCHANGED <<credits, creditsErr, uids, log, settings, now, lastUsed, ext, extLog, pre,
                   nextId, ops>>

\* storage.updateUid, then storage.logActivity only if the record was found
\* among the caller's own, res.json
PatchStore(r) ==
    /\ req[r].kind = "status"
    /\ req[r].pc \in {"updateUid", "logActivity"}
    /\ LET q == req[r] IN
       CASE q.pc = "updateUid" ->
              /\ uids' = {IF d.id = q.id THEN [d EXCEPT !.status = q.status] ELSE d
                            : d \in uids}
              /\ req' = [req EXCEPT ![r] =
                    IF q.uid.id # 0 THEN [q EXCEPT !.pc = "logActivity"]
                    ELSE Reply(q, 200, "", "", "-")]
              /\ log' = log
         [] q.pc = "logActivity" ->
              /\ log' = logActivity(q.uid.userId, "update_uid")
              /\ req' = [req EXCEPT ![r] = Reply(q, 200, "", "", "-")]
              /\ uids' = uids
    /\ UNCHANGED <<credits, creditsErr, settings, now, lastUsed, ext, extLog, pre, nextId, ops>>


(* PATCH /api/uids/:id/value -------------------------------------------- *)

PatchUidValue(r, in) ==
    \E caller \in in.callers, id \in in.ids, body \in [newUidValue : in.uidValues] :
        /\ Arrive(r)
        /\ LET parsed == updateUidValueSchema(body)
               q0 == [IdleReq EXCEPT !.kind = "value", !.caller = caller, !.id = id,
                                     !.uidValue = body.newUidValue]
           IN  req' = [req EXCEPT ![r] =
                 IF ~parsed.ok
                 THEN Reply(q0, 400, "ZodError", "", "-")
                 ELSE [q0 EXCEPT !.pc = "getUid"]]
        /\ UNCHANGED <<credits, creditsErr, uids, log, settings, now, lastUsed, ext, extLog,
                       nextId>>

ValueGetUid(r) ==
    /\ req[r].kind = "value" /\ req[r].pc = "getUid"
    /\ LET q == req[r]
           uid == getUid(q.id)
       IN  req' = [req EXCEPT ![r] =
             IF uid.id = 0
             THEN Reply(q, 404, "UID not found", "", "-")
             ELSE IF ~Authorized(q.caller, uid.userId)
             THEN Reply([q EXCEPT !.uid = uid], 403, "Can only update your own UIDs", "", "-")
             ELSE [q EXCEPT !.uid = uid, !.pc = "getSettings"]]
    /\ UNCHANGED <<credits, creditsErr, uids, log, settings, now, lastUsed, ext, extLog, pre,
                   nextId, ops>>

\* UIDBypassClient.create, then updateUID starts with deleteUID(oldUid)
ValueClient(r) ==
    /\ req[r].kind = "value" /\ req[r].pc = "getSettings"
    /\ LET q == req[r] IN
       IF ClientCreate.ok
       THEN /\ req' = [req EXCEPT ![r].pc = "deleteUID",
                                  ![r].client = UIDBypassClient(settings.baseUrl,
                                                                settings.apiKey)]
            /\ extLog' = Sent(settings, "remove_uid_api", q.uid.uidValue)
       ELSE /\ req' = [req EXCEPT ![r] = UpdateApiError(q, ClientCreate)]
            /\ extLog' = extLog
    /\ UNCHANGED <<credits, creditsErr, uids, log, settings, now, lastUsed, ext, pre, nextId, ops>>

\* a variant of updateUID that goes on to createUIDFree(newUid) when
\* deleteUID(oldUid) has thrown
updateUIDCreatesAnyway(r, in) ==
    /\ req[r].kind = "value"
    /\ req[r].pc \in {"deleteUID", "createUIDFree"}
    /\ \E outcome \in Deliverable(req[r], in.outcomes) :
        LET q == req[r]
            res == request(outcome)
            failed == UpdateApiError(q, res)
        IN  CASE q.pc = "deleteUID" ->
                   /\ ext' = ServiceAfter("remove_uid_api", q.uid.uidValue, outcome)
                   /\ req' = [req EXCEPT ![r].pc = "createUIDFree"]
                   /\ extLog' = Sent(q.client, "add_uid_free_api", q.uidValue)
              [] q.pc = "createUIDFree" ->
                   /\ ext' = ServiceAfter("add_uid_free_api", q.uidValue, outcome)
                   /\ req' = [req EXCEPT ![r] =
                        IF res.ok THEN [q EXCEPT !.pc = "updateUidValue", !.extOk = TRUE]
                        ELSE failed]
                   /\ extLog' = extLog
    /\ UNCHANGED <<credits, creditsErr, uids, log, settings, now, lastUsed, pre, nextId, ops>>

\* UIDBypassClient.updateUID: deleteUID(oldUid) returns or throws, then
\* createUIDFree(newUid) returns or throws; on success storage.updateUidValue
updateUID(r, in) ==
    /\ req[r].kind = "value"
    /\ req[r].pc \in {"deleteUID", "createUIDFree"}
    /\ \E outcome \in Deliverable(req[r], in.outcomes) :
        LET q == req[r]
            res == request(outcome)
            failed == UpdateApiError(q, res)
        IN  CASE q.pc = "deleteUID" ->
                   /\ ext' = ServiceAfter("remove_uid_api", q.uid.uidValue, outcome)
                   /\ IF res.ok
                      THEN /\ req' = [req EXCEPT ![r].pc = "createUIDFree"]
                           /\ extLog' = Sent(q.client, "add_uid_free_api", q.uidValue)
                      ELSE /\ req' = [req EXCEPT ![r] = failed]
                           /\ extLog' = extLog
              [] q.pc = "createUIDFree" ->
                   /\ ext' = ServiceAfter("add_uid_free_api", q.uidValue, outcome)
                   /\ req' = [req EXCEPT ![r] =
                        IF res.ok THEN [q EXCEPT !.pc = "updateUidValue", !.extOk = TRUE]
                        ELSE failed]
                   /\ extLog' = extLog
    /\ UNCHANGED <<credits, creditsErr, uids, log, settings, now, lastUsed, pre, nextId, ops>>

\* storage.updateUidValue, storage.logActivity, res.json
ValueStore(r) ==
    /\ req[r].kind = "value"
    /\ req[r].pc \in {"updateUidValue", "logActivity"}
    /\ LET q == req[r] IN
       CASE q.pc = "updateUidValue" ->
              /\ uids' = {IF d.id = q.id THEN [d EXCEPT !.uidValue = q.uidValue] ELSE d
                            : d \in uids}
              /\ req' = [req EXCEPT ![r].pc = "logActivity"]
              /\ log' = log
         [] q.pc = "logActivity" ->
              /\ log' = logActivity(q.caller, "update_uid_value")
              /\ req' = [req EXCEPT ![r] = Reply(q, 200, "", "", "-")]
              /\ uids' = uids
    /\ UNCHANGED <<credits, creditsErr, settings, now, lastUsed, ext, extLog, pre, nextId, ops>>

(* POST /api/handler, GET /api/handler ----------------------------------- *)

\* a variant of verifyApiKey that does not look at isPaused
verifyApiKeyIgnoresPause(key) ==
    IF key = "" THEN 401
    ELSE IF key \notin ApiKeys \cup RefusedKeys THEN 401
    ELSE IF ~ApiKeyDoc(key).isEnabled THEN 403
    ELSE 0

\* api-handler.ts verifyApiKey: the status it answers with, 0 when it calls next()
verifyApiKey(key) ==
    IF key = "" THEN 401
    ELSE IF key \notin ApiKeys \cup RefusedKeys THEN 401
    ELSE IF ~ApiKeyDoc(key).isEnabled \/ ApiKeyDoc(key).isPaused THEN 403
    ELSE 0

\* a request with an API key reaches the handler of its action
ApiArrive(r, kind, key, q) ==
    /\ Arrive(r)
    /\ req' = [req EXCEPT ![r] =
          LET q0 == [q EXCEPT !.kind = kind, !.key = key,
                              !.caller = IF key \in ApiKeys THEN ApiKeyDoc(key).userId
                                         ELSE NoUser,
                              !.userId = IF key \in ApiKeys THEN ApiKeyDoc(key).userId
                                         ELSE NoUser]
          IN  IF verifyApiKey(key) # 0
              THEN \* the middleware answers; the body is not read
                   Reply([IdleReq EXCEPT !.kind = kind, !.key = key],
                         verifyApiKey(key), "Unauthorized", "", "-")
              ELSE q0]
    /\ lastUsed' = IF verifyApiKey(key) = 0 THEN [lastUsed EXCEPT ![key] = now]
                   ELSE lastUsed
    /\ UNCHANGED <<credits, creditsErr, uids, log, settings, now, ext, extLog, nextId>>

\* UidModel.countDocuments({apiKeyId, status: 'active'})
currentUidCount(key) == Cardinality({d \in uids : KeyOf(d) = key /\ d.status = "active"})

\* handleAddUidFree up to its first await
handleAddUidFree(r, in) ==
    \E key \in in.keys, uid \in in.apiUids :
        ApiArrive(r, "api_add_free", key,
            LET q == [IdleReq EXCEPT !.uidValue = uid, !.planId = 1, !.duration = 24]
            IN  IF uid = "" THEN Reply(q, 400, "UID is required", "", "-")
                ELSE IF key \in ApiKeys /\ ApiKeyDoc(key).uidLimit # 0
                THEN [q EXCEPT !.pc = "countDocuments"]
                ELSE [q EXCEPT !.pc = "findUser"])

\* handleAddUid up to its first await
handleAddUid(r, in) ==
    \E key \in in.keys, uid \in in.apiUids, plan_id \in in.planIds :
        ApiArrive(r, "api_add", key,
            LET q == [IdleReq EXCEPT !.uidValue = uid, !.planId = plan_id]
            IN  IF uid = "" \/ plan_id = 0
                THEN Reply(q, 400, "UID and plan_id are required", "", "-")
                ELSE IF /\ key \in ApiKeys
                        /\ ApiKeyDoc(key).allowedPlans # {}
                        /\ plan_id \notin ApiKeyDoc(key).allowedPlans
                THEN Reply(q, 403, "This plan is not allowed for this API key", "", "-")
                ELSE IF key \in ApiKeys /\ ApiKeyDoc(key).uidLimit # 0
                THEN [q EXCEPT !.pc = "countDocuments"]
                ELSE [q EXCEPT !.pc = "findPlan"])

\* the awaited reads of handleAddUidFree and handleAddUid return:
\* countDocuments, PlanModel.findOne, UserModel.findById
ApiAddCheck(r) ==
    /\ req[r].kind \in {"api_add_free", "api_add"}
    /\ req[r].pc \in {"countDocuments", "findPlan", "findUser"}
    /\ LET q == req[r]
           plan == PlanModel(q.planId)
       IN  req' = [req EXCEPT ![r] =
             CASE q.pc = "countDocuments" ->
                    IF currentUidCount(q.key) >= ApiKeyDoc(q.key).uidLimit
                    THEN Reply(q, 403, "UID limit reached for this API key", "", "-")
                    ELSE [q EXCEPT !.pc = IF q.kind = "api_add" THEN "findPlan"
                                          ELSE "findUser"]
               [] q.pc = "findPlan" ->
                    IF plan.code = 0 \/ ~plan.isActive
                    THEN Reply(q, 404, "Plan not found or inactive", "", "-")
                    ELSE [q EXCEPT !.pc = "findUser", !.cost = plan.creditsCost,
                                   !.duration = plan.days * 24]
               [] q.pc = "findUser" ->
                    IF q.userId \notin DOMAIN credits
                    THEN Reply(q, 404, "User not found", "", "-")
                    ELSE IF /\ q.kind = "api_add"
                            /\ Below(credits[q.userId], creditsErr[q.userId], q.cost)
                    THEN Reply([q EXCEPT !.currentCredits = credits[q.userId]],
                               400, "Insufficient credits", "", "-")
                    ELSE [q EXCEPT !.currentCredits = credits[q.userId],
                                   !.currentErr = creditsErr[q.userId],
                                   !.pc = IF q.kind = "api_add" THEN "saveUser"
                                          ELSE "save"]]
    /\ UNCHANGED <<credits, creditsErr, uids, log, settings, now, lastUsed, ext, extLog, pre,
                   nextId, ops>>

\* the document handleAddUidFree and handleAddUid build
ApiUidDoc(q, expiresAt) ==
    [userId |-> q.userId, apiKeyId |-> q.key, uidValue |-> q.uidValue, region |-> "PK",
     planId |-> q.planId, duration |-> q.duration, cost |-> q.cost, status |-> "active",
     createdAt |-> now, expiresAt |-> expiresAt]

\* the awaited writes of handleAddUidFree and handleAddUid return: user.save
\* (paid add only), newUid.save, ActivityLogModel.create, res.json.  No call to
\* the external service is made (fetchPlayerName reads a name and provisions
\* nothing).
ApiAddStore(r) ==
    /\ req[r].kind \in {"api_add_free", "api_add"}
    /\ req[r].pc \in {"saveUser", "save", "create"}
    /\ LET q == req[r]
           doc == ApiUidDoc(q, HoursLater(now, q.duration))
       IN  CASE q.pc = "saveUser" ->
                  \* "user.credits -= plan.creditsCost": the cost is a whole
                  \* number not above the balance, the difference of the two
                  \* doubles is exact and keeps the error of the balance
                  /\ credits' = [credits EXCEPT ![q.userId] = q.currentCredits - q.cost]
                  /\ creditsErr' = [creditsErr EXCEPT ![q.userId] = q.currentErr]
                  /\ req' = [req EXCEPT ![r].pc = "save"]
                  /\ UNCHANGED <<uids, log, nextId>>
             [] q.pc = "save" ->
                  IF UidSchemaValid(doc)
                  THEN /\ uids' = uids \cup
                            {[f \in DOMAIN doc \cup {"id"} |->
                                IF f = "id" THEN nextId ELSE doc[f]]}
                       /\ nextId' = nextId + 1
                       /\ req' = [req EXCEPT ![r].pc = "create", ![r].id = nextId]
                       /\ UNCHANGED <<credits, creditsErr, log>>
                  ELSE /\ req' = [req EXCEPT ![r] =
                            Reply(q, 500, "Uid validation failed", "", "-")]
                       /\ UNCHANGED <<credits, creditsErr, uids, log, nextId>>
             [] q.pc = "create" ->
                  /\ log' = logActivity(q.userId,
                                IF q.kind = "api_add" THEN "create_uid_api"
                                ELSE "create_uid_api_free")
                  /\ req' = [req EXCEPT ![r] = Reply(q, 200, "", "", q.id)]
                  /\ UNCHANGED <<credits, creditsErr, uids, nextId>>
    /\ UNCHANGED <<settings, now, lastUsed, ext, extLog, pre, ops>>

\* a findOne that leaves apiKeyId out of its query
FindAnyUid(key, by, uid_id, uid) ==
    LET found == {d \in uids : IF by = "id" THEN d.id = uid_id ELSE d.uidValue = uid}
    IN  IF found = {} THEN NoUid ELSE CHOOSE d \in found : TRUE

\* UidModel.findOne({_id or uidValue, apiKeyId}) of handleRemoveUid and
\* handleRenewUid: uid_id is used when given, the value otherwise
FindKeyUid(key, by, uid_id, uid) ==
    LET found == {d \in uids : /\ KeyOf(d) = key
                               /\ IF by = "id" THEN d.id = uid_id ELSE d.uidValue = uid}
    IN  IF found = {} THEN NoUid ELSE CHOOSE d \in found : TRUE

\* handleRemoveUid up to its first await
handleRemoveUid(r, in) ==
    \E key \in in.keys, by \in in.bys, uid_id \in in.ids, uid \in in.apiUids :
        ApiArrive(r, "api_remove", key,
            LET q == [IdleReq EXCEPT !.by = by, !.id = uid_id, !.uidValue = uid]
            IN  IF by = "none" \/ (by = "value" /\ uid = "")
                THEN Reply(q, 400, "Either uid_id or uid is required", "", "-")
                ELSE [q EXCEPT !.pc = "findOne"])

\* handleRenewUid up to its first await; days counts half days, so that a
\* number of days with a fraction can be asked for
handleRenewUid(r, in) ==
    \E key \in in.keys, by \in in.bys, uid_id \in in.ids, uid \in in.apiUids,
       days \in in.days :
        ApiArrive(r, "api_renew", key,
            LET q == [IdleReq EXCEPT !.by = by, !.id = uid_id, !.uidValue = uid,
                                     !.days = days]
            IN  IF by = "none" \/ (by = "value" /\ uid = "")
                THEN Reply(q, 400, "Either uid_id or uid is required", "", "-")
                ELSE IF days <= 0
                THEN Reply(q, 400, "Days must be a positive number", "", "-")
                ELSE [q EXCEPT !.pc = "findOne"])

\* Date.setDate(getDate() + days): the day of the month is truncated to an
\* integer, so whole days are added (days counts half days)
setDate(t, days) == AddHours(t, 24 * (days \div 2))

\* "uidDoc.duration += days * 24" (days counts half days)
RenewedDuration(duration, days) == duration + days * 12

\* "if (uidDoc.status === 'expired') uidDoc.status = 'active'"
RenewedStatus(status) == IF status = "expired" THEN "active" ELSE status

\* the awaited calls of handleRemoveUid and handleRenewUid return: findOne,
\* uidDoc.save, ActivityLogModel.create, res.json
ApiChange(r) ==
    /\ req[r].kind \in {"api_remove", "api_renew"}
    /\ req[r].pc \in {"findOne", "save", "create"}
    /\ LET q == req[r]
           uidDoc == FindKeyUid(q.key, q.by, q.id, q.uidValue)
       IN  CASE q.pc = "findOne" ->
                  /\ req' = [req EXCEPT ![r] =
                        IF uidDoc.id = 0
                        THEN Reply(q, 404, "UID not found or not created by this API key",
                                   "", "-")
                        ELSE IF q.kind = "api_remove"
                        THEN [q EXCEPT !.pc = "save", !.uid = uidDoc,
                                       !.doc = [uidDoc EXCEPT !.status = "deleted"]]
                        ELSE [q EXCEPT !.pc = "save", !.uid = uidDoc,
                                       !.doc = [uidDoc EXCEPT
                                          !.expiresAt = setDate(uidDoc.expiresAt, q.days),
                                          !.duration = RenewedDuration(uidDoc.duration, q.days),
                                          !.status = RenewedStatus(uidDoc.status)]]]
                  /\ UNCHANGED <<uids, log>>
             [] q.pc = "save" ->
                  \* the fields the handler assigned are written to the document
                  /\ uids' = {IF d.id # q.doc.id THEN d
                              ELSE IF q.kind = "api_remove"
                              THEN [d EXCEPT !.status = q.doc.status]
                              ELSE [d EXCEPT !.expiresAt = q.doc.expiresAt,
                                             !.duration = q.doc.duration,
                                             !.status = IF q.doc.status # q.uid.status
                                                        THEN q.doc.status ELSE @]
                                : d \in uids}
                  /\ req' = [req EXCEPT ![r].pc = "create"]
                  /\ log' = log
             [] q.pc = "create" ->
                  /\ log' = logActivity(q.userId,
                                IF q.kind = "api_remove" THEN "delete_uid_api"
                                ELSE "renew_uid_api")
                  /\ req' = [req EXCEPT ![r] = Reply(q, 200, "", "", q.doc.id)]
                  /\ uids' = uids
    /\ UNCHANGED <<credits, creditsErr, settings, now, lastUsed, ext, extLog, pre, nextId, ops>>

\* handleListUids: the documents of the query {apiKeyId}
handleListUids(r, in) ==
    \E key \in in.keys :
        ApiArrive(r, "api_list", key, [IdleReq EXCEPT !.pc = "find"])

\* the entry of handleListUids for one document, read at time t
ApiListEntry(d, t) ==
    [id |-> d.id, uid |-> d.uidValue,
     status |-> IF d.status = "active" /\ After(d.expiresAt, t) THEN "online" ELSE d.status]

ApiListReturn(r) ==
    /\ req[r].kind = "api_list" /\ req[r].pc = "find"
    /\ req' = [req EXCEPT ![r] =
          Reply(req[r], 200, "", "",
                {ApiListEntry(d, now) : d \in {e \in uids : KeyOf(e) = req[r].key}})]
    /\ UNCHANGED <<credits, creditsErr, uids, log, settings, now, lastUsed, ext, extLog, pre,
                   nextId, ops>>

(* PATCH /api/users/:id/credits, DELETE /api/users/:id -------------------- *)

\* middleware requireOwner: only a session of an owner passes
requireOwner(caller) == isOwner(caller)

\* shared/schema.ts updateCreditSchema: amount is any number, operation is
\* "add" or "deduct"
updateCreditSchema(body) == body.operation \in {"add", "deduct"}

PatchCredits(r, in) ==
    \E caller \in in.callers, id \in in.userIds, amount \in in.amounts,
       operation \in in.operations :
        /\ Arrive(r)
        /\ LET q0 == [IdleReq EXCEPT !.kind = "credits", !.caller = caller, !.userId = id,
                                     !.amount = amount, !.operation = operation]
           IN  req' = [req EXCEPT ![r] =
                 IF ~requireOwner(caller)
                 THEN Reply(q0, 403, "Owner access required", "", "-")
                 ELSE IF ~updateCreditSchema([amount |-> amount, operation |-> operation])
                 THEN Reply(q0, 400, "Failed to update credits", "", "-")
                 ELSE [q0 EXCEPT !.pc = "getUser"]]
        /\ UNCHANGED <<credits, creditsErr, uids, log, settings, now, lastUsed, ext, extLog,
                       nextId>>

\* "newCredits = currentCredits + amount" or "- amount"
newCredits(currentCredits, operation, amount) ==
    IF operation = "add" THEN currentCredits + amount ELSE currentCredits - amount

\* storage.getUser returns, then storage.updateUserCredits, storage.logActivity
CreditsStore(r) ==
    /\ req[r].kind = "credits"
    /\ req[r].pc \in {"getUser", "updateUserCredits", "logActivity"}
    /\ LET q == req[r] IN
       CASE q.pc = "getUser" ->
              /\ req' = [req EXCEPT ![r] =
                    IF q.userId \notin DOMAIN credits
                    THEN Reply(q, 404, "User not found", "", "-")
                    ELSE IF /\ q.operation = "deduct"
                            /\ \/ newCredits(credits[q.userId], q.operation, q.amount) < 0
                               \/ Shortfall(credits[q.userId], creditsErr[q.userId],
                                            q.amount)
                    THEN Reply(q, 400, "Insufficient credits", "", "-")
                    ELSE [q EXCEPT !.currentCredits = credits[q.userId],
                                   !.pc = "updateUserCredits"]]
              /\ UNCHANGED <<credits, creditsErr, log>>
         [] q.pc = "updateUserCredits" ->
              \* findByIdAndUpdate on a user deleted meanwhile updates nothing
              /\ credits' = IF q.userId \in DOMAIN credits
                            THEN [credits EXCEPT ![q.userId] =
                                    newCredits(q.currentCredits, q.operation, q.amount)]
                            ELSE credits
              \* the number written is parseFloat(newCredits.toFixed(2))
              /\ creditsErr' = IF q.userId \in DOMAIN credits
                               THEN [creditsErr EXCEPT ![q.userId] =
                                       parseFloat(newCredits(q.currentCredits,
                                                             q.operation, q.amount))]
                               ELSE creditsErr
              /\ req' = [req EXCEPT ![r].pc = "logActivity"]
              /\ log' = log
         [] q.pc = "logActivity" ->
              /\ log' = logActivity(q.caller, "credit_" \o q.operation)
              /\ req' = [req EXCEPT ![r] =
                    Reply(q, 200, "", "",
                          newCredits(q.currentCredits, q.operation, q.amount))]
              /\ credits' = credits
              /\ creditsErr' = creditsErr
    /\ UNCHANGED <<uids, settings, now, lastUsed, ext, extLog, pre, nextId, ops>>

DeleteUsers(r, in) ==
    \E caller \in in.callers, id \in in.userIds :
        /\ Arrive(r)
        /\ LET q0 == [IdleReq EXCEPT !.kind = "delete_user", !.caller = caller,
                                     !.userId = id]
           IN  req' = [req EXCEPT ![r] =
                 IF ~requireOwner(caller)
                 THEN Reply(q0, 403, "Owner access required", "", "-")
                 ELSE [q0 EXCEPT !.pc = "getUser"]]
        /\ UNCHANGED <<credits, creditsErr, uids, log, settings, now, lastUsed, ext, extLog,
                       nextId>>

\* storage.getUser returns, then storage.deleteUser: the user, the user's Uid
\* documents and the user's activity entries are deleted
activityOfOthers(seq, userId) ==
    LET keep(entry) == entry.userId # userId IN SelectSeq(seq, keep)

\* a variant of DeleteUserStore that does not look at user.isOwner
DeleteUserStoreAnyone(r) ==
    /\ req[r].kind = "delete_user"
    /\ req[r].pc \in {"getUser", "deleteUser"}
    /\ LET q == req[r] IN
       CASE q.pc = "getUser" ->
              /\ req' = [req EXCEPT ![r] =
                    IF q.userId \notin DOMAIN credits
                    THEN Reply(q, 404, "User not found", "", "-")
                    ELSE [q EXCEPT !.pc = "deleteUser"]]
              /\ UNCHANGED <<credits, creditsErr, uids, log>>
         [] q.pc = "deleteUser" ->
              /\ credits' = [u \in DOMAIN credits \ {q.userId} |-> credits[u]]
              /\ creditsErr' = [u \in DOMAIN credits \ {q.userId} |-> creditsErr[u]]
              /\ uids' = {d \in uids : d.userId # q.userId}
              /\ log' = activityOfOthers(log, q.userId)
              /\ req' = [req EXCEPT ![r] = Reply(q, 200, "", "", "-")]
    /\ UNCHANGED <<settings, now, lastUsed, ext, extLog, pre, nextId, ops>>

DeleteUserStore(r) ==
    /\ req[r].kind = "delete_user"
    /\ req[r].pc \in {"getUser", "deleteUser"}
    /\ LET q == req[r] IN
       CASE q.pc = "getUser" ->
              /\ req' = [req EXCEPT ![r] =
                    IF q.userId \notin DOMAIN credits
                    THEN Reply(q, 404, "User not found", "", "-")
                    ELSE IF isOwner(q.userId)
                    THEN Reply(q, 403, "Cannot delete owner account", "", "-")
                    ELSE [q EXCEPT !.pc = "deleteUser"]]
              /\ UNCHANGED <<credits, creditsErr, uids, log>>
         [] q.pc = "deleteUser" ->
              /\ credits' = [u \in DOMAIN credits \ {q.userId} |-> credits[u]]
              /\ creditsErr' = [u \in DOMAIN credits \ {q.userId} |-> creditsErr[u]]
              /\ uids' = {d \in uids : d.userId # q.userId}
              /\ log' = activityOfOthers(log, q.userId)
              /\ req' = [req EXCEPT ![r] = Reply(q, 200, "", "", "-")]
    /\ UNCHANGED <<settings, now, lastUsed, ext, extLog, pre, nextId, ops>>

(* POST /api/settings ----------------------------------------------------- *)

\* requireOwner, insertSettingsSchema.parse (baseUrl and apiKey are picked),
\* then storage.updateSettings awaits SettingsModel.findOne
PostSettings(r, in) ==
    \E caller \in in.callers, settingsData \in in.settingsData :
        /\ Arrive(r)
        /\ LET q0 == [IdleReq EXCEPT !.kind = "settings", !.caller = caller,
                                     !.settingsData = settingsData]
           IN  req' = [req EXCEPT ![r] =
                 IF ~requireOwner(caller)
                 THEN Reply(q0, 403, "Owner access required", "", "-")
                 ELSE [q0 EXCEPT !.pc = "findOne"]]
        /\ UNCHANGED <<credits, creditsErr, uids, log, settings, now, lastUsed, ext, extLog,
                       nextId>>

\* storage.updateSettings: findOne returns the document or nothing; then the
\* document found is updated, or a document is created. The variable settings
\* is the document SettingsModel.findOne() returns, the oldest one: a
\* document created while one exists lies behind it and is never read.
updateSettings(r) ==
    /\ req[r].kind = "settings"
    /\ req[r].pc \in {"findOne", "findByIdAndUpdate", "create"}
    /\ LET q == req[r] IN
       CASE q.pc = "findOne" ->
              /\ req' = [req EXCEPT ![r].existing = (settings # NoSettings),
                                    ![r].pc = IF settings # NoSettings
                                              THEN "findByIdAndUpdate" ELSE "create"]
              /\ settings' = settings
         [] q.pc = "findByIdAndUpdate" ->
              /\ settings' = q.settingsData
              /\ req' = [req EXCEPT ![r] = Reply(q, 200, "", "", q.settingsData)]
         [] q.pc = "create" ->
              /\ settings' = IF settings = NoSettings THEN q.settingsData ELSE settings
              /\ req' = [req EXCEPT ![r] = Reply(q, 200, "", "", q.settingsData)]
    /\ UNCHANGED <<credits, creditsErr, uids, log, now, lastUsed, ext, extLog, pre, nextId, ops>>

(* GET /api/uids/all ----------------------------------------------------- *)

\* "{...uid, username, source: 'local'}": the entry of a local document
LocalEntry(d) == [id |-> ToString(d.id), uidValue |-> d.uidValue, source |-> "local"]

\* the entry built for a UID of the external listing: its id is "ext-" and
\* the value
ExternalEntry(uid) == [id |-> "ext-" \o uid, uidValue |-> uid, source |-> "external"]

\* "externalUids.filter(extUid => !localUidValues.has(extUid.uidValue))"
uniqueExternalUids(externalUids, localUids) ==
    {e \in externalUids : \A u \in localUids : u.uidValue # e.uidValue}

\* "[...localUidsWithUsernames, ...uniqueExternalUids]"; the listing has one
\* entry per local document and one per external UID kept
allUidsWithUsernames(localUids, listed) ==
    {LocalEntry(d) : d \in localUids}
        \cup uniqueExternalUids({ExternalEntry(uid) : uid \in listed}, localUids)

\* requireOwner, then storage.getAllUids is awaited
GetAllUids(r, in) ==
    \E caller \in in.callers :
        /\ Arrive(r)
        /\ LET q0 == [IdleReq EXCEPT !.kind = "all", !.caller = caller]
           IN  req' = [req EXCEPT ![r] =
                 IF ~requireOwner(caller)
                 THEN Reply(q0, 403, "Owner access required", "", "-")
                 ELSE [q0 EXCEPT !.pc = "getAllUids"]]
        /\ UNCHANGED <<credits, creditsErr, uids, log, settings, now, lastUsed, ext, extLog,
                       nextId>>

\* storage.getAllUids returns (the reads of the users only fill in names);
\* UIDBypassClient.create; apiClient.listUIDs returns or throws. Every error
\* of the client is caught and the local documents are returned alone.
AllUidsStep(r, in) ==
    /\ req[r].kind = "all"
    /\ req[r].pc \in {"getAllUids", "getSettings", "listUIDs"}
    /\ LET q == req[r] IN
       CASE q.pc = "getAllUids" ->
              /\ req' = [req EXCEPT ![r].localUids = uids, ![r].pc = "getSettings"]
              /\ extLog' = extLog
         [] q.pc = "getSettings" ->
              IF ClientCreate.ok
              THEN /\ req' = [req EXCEPT ![r].pc = "listUIDs",
                                         ![r].client = UIDBypassClient(settings.baseUrl,
                                                                       settings.apiKey)]
                   /\ extLog' = Sent(settings, "list_uids_api", "")
              ELSE /\ req' = [req EXCEPT ![r] =
                         Reply(q, 200, "", "", allUidsWithUsernames(q.localUids, {}))]
                   /\ extLog' = extLog
         [] q.pc = "listUIDs" ->
              /\ \E outcome \in Deliverable(req[r], in.outcomes) :
                    req' = [req EXCEPT ![r] =
                      IF listUIDs(outcome).ok
                      THEN [Reply(q, 200, "", "", allUidsWithUsernames(q.localUids, ext))
                              EXCEPT !.extOk = TRUE]
                      ELSE [Reply(q, 200, "", "", allUidsWithUsernames(q.localUids, {}))
                              EXCEPT !.apiError = listUIDs(outcome).message,
                                     !.thrown = listUIDs(outcome)]]
              /\ extLog' = extLog
    /\ UNCHANGED <<credits, creditsErr, uids, log, settings, now, lastUsed, ext, pre, nextId, ops>>

(* ----------------------------- environment ---------------------------- *)

\* the response has been sent and the handler's locals are gone
Finish(r) ==
    /\ req[r].pc = "done"
    /\ req' = [req EXCEPT ![r] = IdleReq]
    /\ pre' = [pre EXCEPT ![r] = NoSnapshot]
    /\ UNCHANGED <<credits, creditsErr, uids, log, settings, now, lastUsed, ext, extLog, nextId,
                   ops>>

(* POST /api/activity/cleanup -------------------------------------------- *)

\* "req.body.daysOld || 2"
daysOldOf(body) == IF body = NoDays \/ body = 0 THEN 2 ELSE body

\* cutoffDate.setDate(cutoffDate.getDate() - daysOld), for whole days
cutoffDate(t, daysOld) == AddHours(t, 0 - 24 * daysOld)

\* the entries ActivityLogModel.deleteMany({createdAt: {$lt: cutoff}}) leaves
activityNotBefore(seq, cutoff) ==
    LET keep(entry) == ~After(cutoff, entry.createdAt) IN SelectSeq(seq, keep)

\* requireOwner, then the handler up to its first await
PostActivityCleanup(r, in) ==
    \E caller \in in.callers, body \in in.daysOld :
        /\ Arrive(r)
        /\ LET q0 == [IdleReq EXCEPT !.kind = "cleanup", !.caller = caller,
                                     !.daysOld = body]
           IN  req' = [req EXCEPT ![r] =
                 IF ~requireOwner(caller)
                 THEN Reply(q0, 403, "Owner access required", "", "-")
                 ELSE [q0 EXCEPT !.pc = "cleanupOldActivityLogs"]]
        /\ UNCHANGED <<credits, creditsErr, uids, log, settings, now, lastUsed, ext, extLog,
                       nextId>>

\* storage.cleanupOldActivityLogs returns the number deleted; then
\* storage.logActivity, res.json
cleanupOldActivityLogs(r) ==
    /\ req[r].kind = "cleanup"
    /\ req[r].pc \in {"cleanupOldActivityLogs", "logActivity"}
    /\ LET q == req[r] IN
       CASE q.pc = "cleanupOldActivityLogs" ->
              LET kept == activityNotBefore(log, cutoffDate(now, daysOldOf(q.daysOld)))
              IN  /\ log' = kept
                  /\ req' = [req EXCEPT ![r].pc = "logActivity",
                                         ![r].deletedCount = Len(log) - Len(kept)]
         [] q.pc = "logActivity" ->
              /\ log' = logActivity(q.caller, "activity_cleanup")
              /\ req' = [req EXCEPT ![r] =
                    Reply(q, 200, "", "", [deletedCount |-> q.deletedCount])]
    /\ UNCHANGED <<credits, creditsErr, uids, settings, now, lastUsed, ext, extLog, pre, nextId,
                   ops>>

(* UIDBypassClient.request on its own ------------------------------------ *)

\* the actions the methods of the client pass to request
ClientActions ==
    {"add_uid_api", "add_uid_free_api", "remove_uid_api", "renew_uid_api", "list_uids_api"}

\* a method of the client calls request: the timer is set and fetch is called
CallRequest(r) ==
    \E action \in ClientActions, uid \in UidValues :
        /\ Arrive(r)
        /\ ClientCreate.ok
        /\ req' = [req EXCEPT ![r] =
              [IdleReq EXCEPT !.kind = "request", !.pc = "fetch", !.uidValue = uid,
                              !.operation = action, !.timer = "armed",
                              !.client = UIDBypassClient(settings.baseUrl, settings.apiKey)]]
        /\ extLog' = Sent(settings, action, uid)
        /\ UNCHANGED <<credits, creditsErr, uids, log, settings, now, lastUsed, ext, nextId>>

\* fetch settles and request returns or throws
RequestSettles(r) ==
    /\ req[r].kind = "request" /\ req[r].pc = "fetch"
    /\ \E response \in Responses :
          req' = [req EXCEPT ![r] =
             [req[r] EXCEPT !.pc = "done", !.response = response,
                            !.returned = settle(response).returned,
                            !.thrown = settle(response).thrown,
                            !.timer = settle(response).timer]]
    /\ UNCHANGED <<credits, creditsErr, uids, log, settings, now, lastUsed, ext, extLog, pre,
                   nextId, ops>>

\* the pcs at which the two purchase handlers await a write to the store
AwaitingWrite(kind) ==
    CASE kind = "create" -> {"createUid", "updateUserCredits", "logActivity"}
      [] kind \in {"api_add", "api_add_free"} -> {"saveUser", "save", "create"}
      [] OTHER -> {}

\* the awaited write rejects (the store is unreachable): nothing is written,
\* the error reaches the catch block of the route, which answers 400 with the
\* message, or the catch block of registerApiHandler, which answers 500
WriteFails(r) ==
    /\ req[r].pc \in AwaitingWrite(req[r].kind)
    /\ req' = [req EXCEPT ![r] =
          Reply(req[r], IF req[r].kind = "create" THEN 400 ELSE 500,
                "store write failed", "", "-")]
    /\ UNCHANGED <<credits, creditsErr, uids, log, settings, now, lastUsed, ext, extLog, pre,
                   nextId,
                   ops>>

\* the pcs at which a handler awaits a call of the client
AwaitingClient == {"createUID", "deleteUID", "createUIDFree", "listUIDs"}

\* the external service sends the response headers of a pending exchange and
\* then never finishes the body: fetch resolves, the read of the body does not
BodyStalls(r) ==
    /\ req[r].pc \in AwaitingClient
    /\ ~req[r].stalled
    /\ req' = [req EXCEPT ![r].stalled = TRUE]
    /\ UNCHANGED <<credits, creditsErr, uids, log, settings, now, lastUsed, ext, extLog, pre,
                   nextId,
                   ops>>

(* ---------------------------- specification --------------------------- *)

\* a record provisioned earlier, as the store holds it
SeedUid(id, userId, uidValue) ==
    [id |-> id, userId |-> userId, uidValue |-> uidValue, region |-> "PK", planId |-> 1,
     duration |-> 24, cost |-> 50, status |-> "active", createdAt |-> ZeroTime,
     expiresAt |-> HoursLater(ZeroTime, 24)]

SettingsRows ==
    {NoSettings,
     [baseUrl |-> "https://service.example/api", apiKey |-> ""],
     [baseUrl |-> "https://service.example/api", apiKey |-> "key"]}

\* the balances the users start with, in cents
InitialCredits ==
    [u \in Users |-> CASE u = "u1" -> 500 [] u = "u2" -> 200 [] OTHER -> 1000000]

Init ==
    /\ credits = InitialCredits
    /\ creditsErr = [u \in Users |-> parseFloat(InitialCredits[u])]
    /\ uids = {SeedUid(1, "u1", "ABC123"), SeedUid(2, "u2", "DEF456")}
    /\ log = <<>>
    /\ settings \in SettingsRows
    /\ now = ZeroTime
    /\ lastUsed = [k \in ApiKeys \cup RefusedKeys |-> Never]
    /\ ext = {"ABC123", "DEF456"}
    /\ extLog = <<>>
    /\ req = [r \in Slots |-> IdleReq]
    /\ pre = [r \in Slots |-> NoSnapshot]
    /\ nextId = 3
    /\ ops = 0

Begin(r, in) ==
    \/ PostUids(r, in)
    \/ GetUserUids(r, in)
    \/ DeleteUids(r, in)
    \/ PatchUids(r, in)
    \/ PatchUidValue(r, in)

Step(r, in) ==
    \/ CreateGetUser(r) \/ CreateClient(r) \/ CreateExternal(r, in) \/ CreateStore(r)
    \/ ListReturn(r)
    \/ DeleteGetUid(r) \/ DeleteClient(r) \/ DeleteExternal(r, in) \/ DeleteStore(r)
    \/ PatchGetUids(r) \/ PatchStore(r)
    \/ ValueGetUid(r) \/ ValueClient(r) \/ updateUID(r, in) \/ ValueStore(r)
    \/ Finish(r)

\* no handler is running
Quiet == \A s \in Slots : req[s].pc = "idle"

\* what the requests of a run are drawn from: every input
AllInputs ==
    [callers |-> Users, userIds |-> UserIds, uidValues |-> UidValues,
     durations |-> Durations, ids |-> UidIds, statuses |-> Statuses,
     outcomes |-> Outcomes]

\* what concurrent requests are drawn from: requests about user u1 and its record
RaceInputs ==
    [callers |-> {"u1", "admin"}, userIds |-> {"u1"}, uidValues |-> {"ABC123", "XYZ999"},
     durations |-> {72}, ids |-> {1}, statuses |-> {"expired"},
     outcomes |-> {"ok", "timeout"}, amounts |-> {100}, operations |-> {"add"},
     settingsData |-> {[baseUrl |-> "https://service.example/api", apiKey |-> "key"],
                       [baseUrl |-> "https://other.example/api", apiKey |-> "key2"]}]

\* the owner's routes on users
AdminBegin(r, in) == PatchCredits(r, in) \/ DeleteUsers(r, in)

AdminStep(r) == CreditsStore(r) \/ DeleteUserStore(r)

\* the API-key interface
ApiBegin(r, in) ==
    \/ handleAddUidFree(r, in)
    \/ handleAddUid(r, in)
    \/ handleRemoveUid(r, in)
    \/ handleRenewUid(r, in)
    \/ handleListUids(r, in)

ApiStep(r) == ApiAddCheck(r) \/ ApiAddStore(r) \/ ApiChange(r) \/ ApiListReturn(r)

Next ==
    \E r \in Slots :
        \/ Begin(r, RaceInputs) \/ Step(r, RaceInputs)
        \/ PatchCredits(r, RaceInputs) \/ CreditsStore(r)
        \/ DeleteUsers(r, RaceInputs) \/ DeleteUserStore(r)
        \/ PostSettings(r, RaceInputs) \/ updateSettings(r)

\* the next request arrives when the last one has been answered
NextSeq == \E r \in {1} : (Quiet /\ Begin(r, AllInputs)) \/ Step(r, AllInputs)

\* requests are handled concurrently
Spec == Init /\ [][Next]_vars

\* one request at a time
SpecSeq == Init /\ [][NextSeq]_vars

\* a document created through an API key, as the store holds it
ApiUid(id, key, uidValue, status) ==
    [id |-> id, userId |-> ApiKeyDoc(key).userId, apiKeyId |-> key, uidValue |-> uidValue,
     region |-> "PK", planId |-> 2, duration |-> PlanModel(2).days * 24,
     cost |-> PlanModel(2).creditsCost, status |-> status,
     createdAt |-> ZeroTime, expiresAt |-> HoursLater(ZeroTime, PlanModel(2).days * 24)]

\* the balances of that store, in cents
ApiCredits == [u \in Users |-> CASE u = "u1" -> 3000 [] u = "u2" -> 1010 [] OTHER -> 1000000]

\* a store in which both API keys have been used: k1 has added a UID that has
\* since been marked expired, k2 has added one that is active
InitApi ==
    /\ credits = ApiCredits
    /\ creditsErr = [u \in Users |-> parseFloat(ApiCredits[u])]
    /\ uids = {SeedUid(1, "u1", "ABC123"),
               ApiUid(2, "k1", "GHI789", "expired"),
               ApiUid(3, "k2", "JKL012", "active")}
    /\ log = <<>>
    /\ settings = [baseUrl |-> "https://service.example/api", apiKey |-> "key"]
    /\ now = ZeroTime
    /\ lastUsed = [k \in ApiKeys \cup RefusedKeys |-> Never]
    /\ ext = {"ABC123"}
    /\ extLog = <<>>
    /\ req = [r \in Slots |-> IdleReq]
    /\ pre = [r \in Slots |-> NoSnapshot]
    /\ nextId = 4
    /\ ops = 0

\* what the requests of the API-key interface and of the routes that share the
\* store with it are drawn from
ApiInputs ==
    [callers |-> {"u1", "admin"}, userIds |-> {"u1", "u2", "admin"},
     uidValues |-> {"XYZ999"}, durations |-> {72}, ids |-> {1, 2, 3},
     statuses |-> {"active", "expired"}, outcomes |-> {"ok", "timeout"},
     amounts |-> {100, -4000}, operations |-> {"add", "deduct"},
     keys |-> {"k1", "k2", "k3", "k4", "bad", ""}, apiUids |-> {"", "GHI789", "NEW001"},
     bys |-> {"id", "value", "none"}, planIds |-> {0, 1, 2, 3, 9}, days |-> {0, 2, 3, 14}]

\* every route and every API action, one request at a time
NextApi ==
    \E r \in {1} :
        \/ Quiet /\ (Begin(r, ApiInputs) \/ AdminBegin(r, ApiInputs) \/ ApiBegin(r, ApiInputs))
        \/ Quiet /\ GetAllUids(r, ApiInputs)
        \/ Step(r, ApiInputs) \/ AdminStep(r) \/ ApiStep(r)
        \/ AllUidsStep(r, ApiInputs)

SpecApi == InitApi /\ [][NextApi]_vars

\* time passes between two requests (Date.now() and new Date() read the
\* clock; the handlers write expiresAt and never compare it when time passes)
Tick ==
    /\ Quiet
    /\ now.h < MaxClock
    /\ now' = AddHours(now, 24)
    /\ UNCHANGED <<credits, creditsErr, uids, log, settings, lastUsed, ext, extLog, req, pre,
                   nextId,
                   ops>>

\* the same requests with a clock that advances
NextClock == NextApi \/ Tick

SpecClock == InitApi /\ [][NextClock]_vars

\* what the requests of a run with purges are drawn from
PurgeInputs ==
    [callers |-> {"u1", "admin"}, userIds |-> {"u1"}, uidValues |-> {"XYZ999"},
     durations |-> {72}, ids |-> {1}, statuses |-> {"expired"},
     outcomes |-> {"ok", "timeout"}, daysOld |-> {NoDays, 0, 1, 2}]

\* the dashboard's UID routes and the activity purge, one request at a time,
\* with a clock that advances
NextPurge ==
    \/ \E r \in {1} :
          \/ Quiet /\ (Begin(r, PurgeInputs) \/ PostActivityCleanup(r, PurgeInputs))
          \/ Step(r, PurgeInputs)
          \/ cleanupOldActivityLogs(r)
    \/ Tick

\* the store after two days of use: the seeded records were created at hour 0
\* and 24, and each creation was logged
InitPurge ==
    /\ credits = InitialCredits
    /\ creditsErr = [u \in Users |-> parseFloat(InitialCredits[u])]
    /\ uids = {SeedUid(1, "u1", "ABC123"), SeedUid(2, "u2", "DEF456")}
    /\ log = <<[userId |-> "u1", action |-> "create_uid", createdAt |-> ZeroTime],
               [userId |-> "u2", action |-> "create_uid",
                createdAt |-> AddHours(ZeroTime, 24)]>>
    /\ settings \in SettingsRows
    /\ now = AddHours(ZeroTime, 48)
    /\ lastUsed = [k \in ApiKeys \cup RefusedKeys |-> Never]
    /\ ext = {"ABC123", "DEF456"}
    /\ extLog = <<>>
    /\ req = [r \in Slots |-> IdleReq]
    /\ pre = [r \in Slots |-> NoSnapshot]
    /\ nextId = 3
    /\ ops = 0

SpecPurge == InitPurge /\ [][NextPurge]_vars

\* the same requests against a store whose writes may fail
NextFault == NextApi \/ \E r \in {1} : WriteFails(r)

SpecFault == InitApi /\ [][NextFault]_vars

\* the dashboard's store, configured for a service that refuses to add a value
\* it holds
InitUnique ==
    /\ credits = InitialCredits
    /\ creditsErr = [u \in Users |-> parseFloat(InitialCredits[u])]
    /\ uids = {SeedUid(1, "u1", "ABC123"), SeedUid(2, "u2", "DEF456")}
    /\ log = <<>>
    /\ settings = [baseUrl |-> RefusingService, apiKey |-> "key"]
    /\ now = ZeroTime
    /\ lastUsed = [k \in ApiKeys \cup RefusedKeys |-> Never]
    /\ ext = {"ABC123", "DEF456"}
    /\ extLog = <<>>
    /\ req = [r \in Slots |-> IdleReq]
    /\ pre = [r \in Slots |-> NoSnapshot]
    /\ nextId = 3
    /\ ops = 0

SpecUnique == InitUnique /\ [][NextSeq]_vars

\* calls of the client's request helper, one at a time
NextClient == \E r \in {1} : CallRequest(r) \/ RequestSettles(r) \/ Finish(r)

SpecClient == InitApi /\ [][NextClient]_vars

\* the steps of the handlers: continuations the event loop runs when the
\* awaited call has settled
HandlerStep ==
    \E r \in {1} :
        Step(r, ApiInputs) \/ AdminStep(r) \/ ApiStep(r) \/ AllUidsStep(r, ApiInputs)

\* the same requests against a service that may stall a response body
NextLive == NextApi \/ \E r \in {1} : BodyStalls(r)

\* a handler whose awaited call can settle is eventually continued: the store
\* answers, and the external service answers or the timer set for the
\* exchange fires
SpecLive == InitApi /\ [][NextLive]_vars /\ WF_vars(HandlerStep)

(* ------------------------------ properties ----------------------------- *)

\* a handler that has answered
Done(r, kind) == req[r].pc = "done" /\ req[r].kind = kind

\* the answer is a failure
Failure(r) == req[r].resp.status >= 400

\* the call to the external service failed: the client threw
ExternalFailed(r) == req[r].apiError # "-"

\* C1: when the external createUid call of a Create request fails in any way
\* (service not configured, timeout, network failure, error answer), the
\* balances are what they were when the request arrived, no Uid document has
\* been added or changed, and the answer is a failure.
C1_FailedCreateChangesNothing ==
    \A r \in Slots :
        Done(r, "create") /\ ExternalFailed(r) =>
            /\ credits = pre[r].credits
            /\ uids = pre[r].uids
            /\ Failure(r)

\* a Create request whose createUid call timed out has been answered
C1_Witness ==
    \E r \in Slots :
        /\ Done(r, "create")
        /\ req[r].apiError = "Request timeout"
        /\ credits[req[r].userId] >= req[r].cost

\* the store and the service are as the request found them
NothingChanged(r) ==
    /\ credits = pre[r].credits
    /\ uids = pre[r].uids
    /\ log = pre[r].log
    /\ ext = pre[r].ext
    /\ extLog = pre[r].extLog

\* the documents the store holds now and did not hold when the request arrived
NewUids(r) == {d \in uids : \A e \in pre[r].uids : e.id # d.id}

\* C2: a Create request whose UID the external service has provisioned ends
\* with one new document whose cost is the tier price of the duration and with
\* the user's balance lowered by that price, whatever cost the body carried; a
\* Create request whose duration is not one of the five tiers is refused and
\* changes nothing (no external call, no document, no debit, no entry).
C2_ChargedTierPrice ==
    \A r \in Slots :
        Done(r, "create") =>
            LET q == req[r] IN
            /\ q.extOk =>
                  /\ \E d \in NewUids(r) : d.cost = pricingTiers(q.duration)
                  /\ pre[r].credits[q.userId] - credits[q.userId] = pricingTiers(q.duration)
            /\ pricingTiers(q.duration) = 0 => Failure(r) /\ NothingChanged(r)

\* C3: when the external deleteUid call of a Delete request fails, the
\* document with that id is still stored with every field as before, no
\* delete_uid entry is written, and the answer is a failure.
C3_FailedDeleteKeepsRecord ==
    \A r \in Slots :
        Done(r, "delete") /\ ExternalFailed(r) =>
            /\ \E d \in uids : d.id = req[r].id /\ d \in pre[r].uids
            /\ uids = pre[r].uids
            /\ log = pre[r].log
            /\ Failure(r)

\* a Delete request on a stored document whose deleteUid call timed out has
\* been answered
C3_Witness ==
    \E r \in Slots :
        /\ Done(r, "delete")
        /\ req[r].apiError = "Request timeout"
        /\ req[r].uid.id = req[r].id

\* C4: when the external rename of an Update-value request fails, in the
\* delete call or in the free-create call after the delete succeeded, the
\* stored value of the document is unchanged and the answer is a failure that
\* carries the message of the external error.
C4_FailedRenameKeepsValue ==
    \A r \in Slots :
        Done(r, "value") /\ ExternalFailed(r) =>
            /\ \E d \in uids : d.id = req[r].id /\ d.uidValue = req[r].uid.uidValue
            /\ uids = pre[r].uids
            /\ Failure(r)
            /\ req[r].resp.details = req[r].apiError

\* a rename whose delete call succeeded and whose free-create call failed has
\* been answered
C4_Witness ==
    \E r \in Slots :
        /\ Done(r, "value")
        /\ ExternalFailed(r)
        /\ Len(extLog) = Len(pre[r].extLog) + 2
        /\ extLog[Len(extLog)].action = "add_uid_free_api"
        /\ extLog[Len(extLog)].uid = req[r].uidValue
        /\ req[r].uid.uidValue \in pre[r].ext \ ext

\* the request of slot r names a user other than the caller, or a document that
\* was another user's when the request arrived
Foreign(r) ==
    LET q == req[r] IN
    IF q.kind \in {"create", "list"}
    THEN q.userId # q.caller
    ELSE \E d \in pre[r].uids : d.id = q.id /\ d.userId # q.caller

ActionTag(kind) ==
    CASE kind = "create" -> "create_uid"
      [] kind = "status" -> "update_uid"
      [] kind = "value"  -> "update_uid_value"
      [] kind = "delete" -> "delete_uid"

\* C6: every create, status update, value update and delete answered with
\* success has appended exactly one entry to the activity log, with the tag of
\* the operation and the id of the caller as its actor.
C6_OneEntryByCaller ==
    \A r \in Slots :
        /\ req[r].pc = "done"
        /\ req[r].kind \in {"create", "status", "value", "delete"}
        /\ req[r].resp.status = 200
        => /\ Len(log) = Len(pre[r].log) + 1
           /\ SubSeq(log, 1, Len(pre[r].log)) = pre[r].log
           /\ log[Len(log)].userId = req[r].caller
           /\ log[Len(log)].action = ActionTag(req[r].kind)

\* C7: a Create request that read a balance lower than the tier price is
\* refused with "Insufficient credits", the external service has received
\* nothing from it, and the balances are unchanged.
C7_InsufficientCreditsRefused ==
    \A r \in Slots :
        LET q == req[r] IN
        /\ Done(r, "create")
        /\ q.userId \in DOMAIN credits
        /\ q.cost > 0
        /\ q.currentCredits < q.cost
        => /\ q.resp.status = 400
           /\ q.resp.error = "Insufficient credits"
           /\ extLog = pre[r].extLog
           /\ ext = pre[r].ext
           /\ credits = pre[r].credits

\* the user with balance 2.00 has asked for 168 hours at 2.33 and has been
\* refused; the balance is 2.00
C7_Witness ==
    \E r \in Slots :
        /\ Done(r, "create")
        /\ req[r].userId = "u2"
        /\ req[r].duration = 168
        /\ req[r].currentCredits = 200
        /\ req[r].cost = 233
        /\ req[r].resp.error = "Insufficient credits"
        /\ credits["u2"] = 200

\* C8: a Create request that passed validation and whose external call
\* succeeded, with no other request in flight, ends with exactly one new
\* document, active, of the duration asked for, with the tier price as cost
\* and creation time plus duration hours as expiry, and with the user's
\* balance lowered by the tier price.
C8_CreateCommits ==
    \A r \in Slots :
        Done(r, "create") /\ req[r].extOk =>
            LET q == req[r] IN
            /\ Cardinality(NewUids(r)) = 1
            /\ \A d \in NewUids(r) :
                  /\ d.userId = q.userId
                  /\ d.uidValue = q.uidValue
                  /\ d.status = "active"
                  /\ d.duration = q.duration
                  /\ d.cost = pricingTiers(q.duration)
                  /\ d.expiresAt = HoursLater(d.createdAt, q.duration)
            /\ credits = [pre[r].credits EXCEPT ![q.userId] = @ - pricingTiers(q.duration)]

\* C9: when requests that ran side by side have all been answered with
\* success, the value stored in a document that a create or value update among
\* them was about is a value the external service holds, however their steps
\* were interleaved.
C9_StoredValueHeld ==
    (\A s \in Slots : req[s].pc = "done" /\ req[s].resp.status = 200) =>
        \A r \in Slots :
            req[r].kind \in {"create", "value"} =>
                \A d \in uids :
                    (d.id = req[r].id \/ d \in NewUids(r)) => d.uidValue \in ext

\* C10: when a create, value update or delete that found every stored value
\* held by the external service ends in failure, every stored value is still
\* held by the external service.
C10_FailureLeavesNoOrphan ==
    \A r \in Slots :
        /\ req[r].pc = "done"
        /\ req[r].kind \in {"create", "value", "delete"}
        /\ Failure(r)
        /\ \A d \in pre[r].uids : d.uidValue \in pre[r].ext
        => \A d \in uids : d.uidValue \in ext

\* the document with the id of d among the documents the request of slot r found
Before(r, d) == CHOOSE e \in pre[r].uids : e.id = d.id

\* C11: a renew answered with success, for d days (q.days half days), has moved
\* the expiry of the document by d times 24 hours, has raised its duration by
\* d times 24, has made its status active exactly when it was expired, and has
\* changed no other document and no balance.
C11_RenewExtends ==
    \A r \in Slots :
        Done(r, "api_renew") /\ req[r].resp.status = 200 =>
            LET q == req[r] IN
            /\ \A d \in uids :
                  IF d.id = q.doc.id
                  THEN /\ d.expiresAt = AddHours(Before(r, d).expiresAt, q.days * 12)
                       /\ d.duration = Before(r, d).duration + q.days * 12
                       /\ d.status = IF Before(r, d).status = "expired" THEN "active"
                                     ELSE Before(r, d).status
                  ELSE d \in pre[r].uids
            /\ {d.id : d \in uids} = {d.id : d \in pre[r].uids}
            /\ credits = pre[r].credits

\* C12: no step takes a document whose status is deleted to another status.
C12_DeletedIsFinal ==
    [][\A d \in uids : d.status = "deleted" =>
          \A e \in uids' : e.id = d.id => e.status = "deleted"]_vars

\* what the answered request of slot s has added to the balance of user u: the
\* amount of a successful owner add, minus the amount of a successful owner
\* deduct, minus the cost of a document a successful create stored
CreditEffect(s, u) ==
    LET q == req[s] IN
    IF q.pc # "done" \/ q.resp.status # 200 \/ q.userId # u THEN 0
    ELSE IF q.kind = "credits"
    THEN IF q.operation = "add" THEN q.amount ELSE 0 - q.amount
    ELSE IF q.kind \in {"create", "api_add"} THEN 0 - q.cost
    ELSE 0

\* C13: when the requests that ran side by side have all been answered, the
\* balance of every user is the initial balance plus every successful add,
\* minus every successful deduct, minus the cost of every document created.
C13_NoLostUpdate ==
    (\A s \in Slots : req[s].pc = "done") =>
        \A u \in DOMAIN credits :
            credits[u] = InitialCredits[u] + CreditEffect(1, u) + CreditEffect(2, u)

\* C14: the balance of every user is zero or more.
C14_BalanceNotNegative == \A u \in DOMAIN credits : credits[u] >= 0

\* the request of slot r has had its external call answered with success
ExternalSucceeded(r, kind) == req[r].kind = kind /\ req[r].extOk

\* C15: a step that adds a document is a step of a request whose external
\* provisioning call has succeeded, a step that changes the value of a document
\* is a step of a request whose external rename has succeeded, and a step that
\* takes a document out of the store is a step of a request whose external
\* removal has succeeded.
C15_ExternalFirst ==
    [][/\ (\E e \in uids' : \A d \in uids : d.id # e.id)
            => \E r \in Slots : ExternalSucceeded(r, "create")
       /\ (\E d \in uids, e \in uids' : d.id = e.id /\ d.uidValue # e.uidValue)
            => \E r \in Slots : ExternalSucceeded(r, "value")
       /\ (\E d \in uids : \A e \in uids' : e.id # d.id)
            => \E r \in Slots : ExternalSucceeded(r, "delete")]_vars

\* the request of slot r is one that validation, authorization or the lookup
\* of its user or document must turn down: a value that is not 6 to 12
\* characters long, a duration that is not a tier, a target of another user
\* for a caller who is not an owner, a user or a document that does not exist
MustBeTurnedDown(r) ==
    LET q == req[r]
        badValue == Len(q.uidValue) < 6 \/ Len(q.uidValue) > 12
        noDoc == \A d \in pre[r].uids : d.id # q.id
    IN  CASE q.kind = "create" ->
               \/ badValue
               \/ q.duration \notin {24, 72, 168, 336, 720}
               \/ ~isOwner(q.caller) /\ Foreign(r)
               \/ q.userId \notin DOMAIN pre[r].credits
          [] q.kind = "value" -> badValue \/ noDoc \/ (~isOwner(q.caller) /\ Foreign(r))
          [] q.kind = "delete" -> noDoc \/ (~isOwner(q.caller) /\ Foreign(r))
          [] OTHER -> FALSE

\* C16: a create, value update or delete that is turned down for its value,
\* its duration, its caller's rights or an unknown user or document id is
\* answered with a failure, and the store and the external service are as the
\* request found them: nothing was sent and nothing was written.
C16_RejectedBeforeAnyEffect ==
    \A r \in Slots :
        req[r].pc = "done" /\ MustBeTurnedDown(r) => Failure(r) /\ NothingChanged(r)

\* a create with a value of five characters has been answered
C16_Witness ==
    \E r \in Slots :
        /\ Done(r, "create")
        /\ req[r].uidValue = "SHORT"
        /\ req[r].caller = req[r].userId
        /\ req[r].duration = 24
        /\ settings.apiKey # ""

\* C17: of the operations on Uid documents only a create changes a balance,
\* and only once its call to the external service has succeeded: while a value
\* update, a delete, a status update or a renew is running or has answered,
\* every balance is what it was when the request arrived, a status update has
\* sent nothing to the external service, and a create, through the dashboard
\* or through an API key, that has changed a balance has had a successful
\* external call.
C17_OnlyCreateAfterExternalDebits ==
    \A r \in Slots :
        req[r].pc # "idle" =>
            /\ req[r].kind \in {"value", "delete", "status", "api_remove", "api_renew"}
                  => credits = pre[r].credits
            /\ req[r].kind = "status"
                  => ext = pre[r].ext /\ extLog = pre[r].extLog
            /\ req[r].kind \in {"create", "api_add", "api_add_free"}
                  /\ credits # pre[r].credits
                  => req[r].extOk

\* C18: for every API key that has a cap on its number of Uid documents, the
\* number of documents with status active that were created through the key
\* is at most the cap, in every reachable state.
C18_CapNeverExceeded ==
    \A k \in ApiKeys :
        ApiKeyDoc(k).uidLimit # 0 => currentUidCount(k) <= ApiKeyDoc(k).uidLimit

\* C19: for every API key with a non-empty list of allowed plans, every
\* document created through the key has a plan of the list.
C19_PlanInWhitelist ==
    \A d \in uids :
        KeyOf(d) \in ApiKeys /\ ApiKeyDoc(KeyOf(d)).allowedPlans # {}
            => d.planId \in ApiKeyDoc(KeyOf(d)).allowedPlans

\* the documents, of any key or of the dashboard, that the renew or remove
\* request of slot r names by id or by value, as they were when it arrived
Named(r) ==
    {d \in pre[r].uids : IF req[r].by = "id" THEN d.id = req[r].id
                         ELSE d.uidValue = req[r].uidValue}

\* C20: a renew or a remove made with an API key leaves every document that
\* was not created through that key as it was; when it names, by id or by
\* value, only documents of another key or of the dashboard, it is answered
\* 404 (400 when the body is refused first) and no document changes. A list
\* made with an API key returns only documents created through that key.
C20_KeyScoped ==
    \A r \in Slots :
        /\ (Done(r, "api_renew") \/ Done(r, "api_remove")) /\ req[r].key \in ApiKeys
              => /\ \A d \in pre[r].uids : KeyOf(d) # req[r].key => d \in uids
                 /\ (\A d \in Named(r) : KeyOf(d) # req[r].key)
                       => /\ uids = pre[r].uids
                          /\ req[r].resp.status \in {400, 404}
                          /\ (req[r].by # "none" /\ req[r].uidValue # ""
                               /\ (req[r].kind = "api_renew" => req[r].days > 0))
                                => req[r].resp.status = 404
        /\ Done(r, "api_list") /\ req[r].resp.status = 200
              => /\ req[r].key \in ApiKeys
                 /\ {e.id : e \in req[r].resp.data} \subseteq
                        {d.id : d \in {e \in uids : KeyOf(e) = req[r].key}}
                 /\ uids = pre[r].uids

\* key k1 has asked to renew, by id, the document 3 that key k2 created
C20_Witness ==
    \E r \in Slots :
        /\ Done(r, "api_renew")
        /\ req[r].key = "k1" /\ req[r].by = "id" /\ req[r].id = 3 /\ req[r].days > 0
        /\ req[r].resp.status = 404
        /\ \E d \in uids : d.id = 3 /\ KeyOf(d) = "k2" /\ d.status = "active"

\* the request of slot r names a document id that no document had, or a user
\* id that no user had, when it arrived
NamesUnknown(r) ==
    LET q == req[r] IN
    \/ /\ q.kind \in {"delete", "status", "value"}
       /\ \A d \in pre[r].uids : d.id # q.id
    \/ /\ q.kind \in {"api_renew", "api_remove"}
       /\ q.key \in ApiKeys /\ q.by = "id"
       /\ \A d \in pre[r].uids : d.id # q.id
    \/ /\ q.kind \in {"create", "credits"}
       /\ q.userId \notin DOMAIN pre[r].credits

\* C22: a delete, status update, value update, renew or remove naming a
\* document id that does not exist, and a create or credit change naming a
\* user id that does not exist, ends with a failure and with the store, the
\* log and the service as the request found them; when the caller is an owner
\* (or holds a valid API key) and the body is well formed the failure is 404.
C22_UnknownIdNotFound ==
    \A r \in Slots :
        req[r].pc = "done" /\ NamesUnknown(r)
            => /\ Failure(r)
               /\ NothingChanged(r)
               /\ req[r].resp.status \in {400, 403, 404}
               /\ (isOwner(req[r].caller) /\ req[r].kind \in {"delete", "status"})
                     => req[r].resp.status = 404

\* the entries of the answer of slot r that come from the external listing
ExternalEntries(r) == {e \in req[r].resp.data : e.source = "external"}

\* C21: the answer of GET /uids/all is a success; it has the entry of every
\* local document; its external entries are exactly the values the external
\* service listed that no local document holds, and none when the listing
\* failed; and no value appears in two entries.
C21_AllMergedOnce ==
    \A r \in Slots :
        Done(r, "all") /\ isOwner(req[r].caller)
            => /\ req[r].resp.status = 200
               /\ \A d \in uids : LocalEntry(d) \in req[r].resp.data
               /\ {e.uidValue : e \in ExternalEntries(r)} =
                     IF req[r].extOk
                     THEN {v \in ext : \A d \in uids : d.uidValue # v}
                     ELSE {}
               /\ \A e1, e2 \in req[r].resp.data :
                     e1.uidValue = e2.uidValue => e1 = e2

\* C23: once DELETE /users/:id has answered with success, no Uid document and
\* no activity entry carries the id of the deleted user, whatever the other
\* requests in flight do afterwards.
C23_DeletionCascades ==
    \A r \in Slots :
        Done(r, "delete_user") /\ req[r].resp.status = 200
            => /\ \A d \in uids : d.userId # req[r].userId
               /\ \A i \in 1..Len(log) : log[i].userId # req[r].userId

\* the last request the external service has received, after the step
LastSent == extLog'[Len(extLog')]

\* C24: a settings update that answers with success leaves the settings row
\* holding the base URL and the API key it was given, so that the client of
\* every operation that starts later is built from them and the later of two
\* updates wins; and every request sent to the external service goes to the
\* base URL and with the key of the client that sends it, which are those of
\* the settings row when the client was built.
C24_SettingsTakeEffect ==
    [][/\ \A r \in Slots :
            /\ req[r].kind = "settings" /\ req[r].pc # "done"
            /\ req'[r].pc = "done" /\ req'[r].resp.status = 200
            => settings' = req[r].settingsData
       /\ extLog' # extLog
            => \E r \in Slots :
                /\ req'[r].client = UIDBypassClient(LastSent.baseUrl, LastSent.apiKey)
                /\ req[r].pc = "getSettings"
                     => req'[r].client = UIDBypassClient(settings.baseUrl, settings.apiKey)]_vars

\* C25: every stored balance is the number that stands for a whole number of
\* cents: the double nearest to credits/100, as parseFloat gives it for a
\* string with two decimals, with nothing left over from earlier arithmetic.
C25_WholeCents ==
    \A u \in DOMAIN credits : creditsErr[u] = parseFloat(credits[u])

\* the requests the external service has received since the request of slot
\* r arrived
SentSince(r) == SubSeq(extLog, Len(pre[r].extLog) + 1, Len(extLog))

\* C26: the requests of a rename are the removal of the old value and then
\* the free add of the new value, in that order and at most one of each; the
\* free add is sent only when the removal has succeeded (the service no
\* longer holds the old value); when the removal fails the service holds
\* what it held and has received no request for the new value.
C26_RenameDeletesThenCreates ==
    \A r \in Slots :
        req[r].kind = "value" /\ req[r].pc # "idle"
            => LET old == req[r].uid.uidValue
                   new == req[r].uidValue
                   sent == SentSince(r)
               IN  /\ Len(sent) <= 2
                   /\ Len(sent) >= 1
                        => sent[1].action = "remove_uid_api" /\ sent[1].uid = old
                   /\ Len(sent) = 2
                        => /\ sent[2].action = "add_uid_free_api" /\ sent[2].uid = new
                           /\ old \in ext => old = new /\ req[r].extOk
                   /\ req[r].pc = "done" /\ ExternalFailed(r) /\ Len(sent) = 1
                        => ext = pre[r].ext

\* a rename whose removal of the old value failed has been answered: the
\* service has received the removal and nothing else
C26_Witness ==
    \E r \in Slots :
        /\ Done(r, "value")
        /\ ExternalFailed(r)
        /\ Len(SentSince(r)) = 1
        /\ req[r].uid.uidValue \in ext
        /\ req[r].uidValue \notin ext

\* what a caller holding a thrown error can inspect apart from free text:
\* its class, the literal part of its message, its code and status code
ErrorKind(e) == [name |-> e.name, text |-> e.text, statusCode |-> e.statusCode]

\* the error the client call of a route raises when the exchange ends in the
\* given way
Raised(kind, outcome) == IF kind = "all" THEN listUIDs(outcome) ELSE request(outcome)

\* C27: an error raised because the hard timeout fired differs, in what the
\* caller can inspect, from the error the same call raises when the service
\* rejects the request and from the one it raises on a malformed body
C27_TimeoutToldApart ==
    \A r \in Slots :
        req[r].thrown.cause = "timeout" =>
            \A o \in {"http_error", "api_error", "bad_json"} :
                ErrorKind(req[r].thrown) # ErrorKind(Raised(req[r].kind, o))

\* the number of requests with the given action in a sequence of requests
CountSent(sent, action) == Cardinality({i \in DOMAIN sent : sent[i].action = action})

\* C28: no external call is retried: while a create request is handled and
\* when it is answered it has sent at most one add request and nothing else,
\* a delete request at most one remove request and nothing else, a
\* value-update request at most one remove and at most one free-add request
\* and nothing else, however those requests ended
C28_NoRetry ==
    \A r \in Slots :
        req[r].pc # "idle" =>
            LET sent == SentSince(r) IN
            /\ req[r].kind = "create" =>
                  /\ CountSent(sent, "add_uid_api") <= 1
                  /\ Len(sent) = CountSent(sent, "add_uid_api")
            /\ req[r].kind = "delete" =>
                  /\ CountSent(sent, "remove_uid_api") <= 1
                  /\ Len(sent) = CountSent(sent, "remove_uid_api")
            /\ req[r].kind = "value" =>
                  /\ CountSent(sent, "remove_uid_api") <= 1
                  /\ CountSent(sent, "add_uid_free_api") <= 1
                  /\ Len(sent) = CountSent(sent, "remove_uid_api")
                                  + CountSent(sent, "add_uid_free_api")

\* a create request answered after its add request timed out, having sent
\* that one request
C28_Witness ==
    \E r \in Slots :
        /\ req[r].kind = "create" /\ req[r].pc = "done"
        /\ req[r].thrown.cause = "timeout"
        /\ CountSent(SentSince(r), "add_uid_api") = 1

Lapsed(id) == {d \in uids : d.id = id /\ ~After(d.expiresAt, now)}

\* C30: a listing of a user's UIDs or of an API key's UIDs reports every
\* record whose expiresAt the clock has reached as expired, whatever status
\* is stored for it
C30_LapsedReadAsExpired ==
    \A r \in Slots :
        (Done(r, "list") \/ Done(r, "api_list")) /\ req[r].resp.status = 200
            => \A e \in req[r].resp.data : Lapsed(e.id) # {} => e.status = "expired"

\* the lifecycle statuses of a record
LifecycleStatuses == {"active", "expired", "deleted"}

\* C31: the stored status of every record is active, expired or deleted, and
\* a status update that carries another value is answered with a failure and
\* leaves the records as they were
C31_StatusInEnum ==
    /\ \A d \in uids : d.status \in LifecycleStatuses
    /\ \A r \in Slots :
          Done(r, "status") /\ req[r].status \notin LifecycleStatuses
              => Failure(r) /\ uids = pre[r].uids

\* the age a purge request asks for: 2 days when the body gives none
AskedDays(r) == IF req[r].daysOld = NoDays THEN 2 ELSE req[r].daysOld

\* the entries of a log that are not older than the given number of days
NotOlderThan(seq, days) ==
    LET keep(entry) == ~After(AddHours(now, 0 - 24 * days), entry.createdAt)
    IN  SelectSeq(seq, keep)

\* C32: a purge answered with success has deleted exactly the entries older
\* than the age asked for (2 days when none is given) and has returned their
\* number; what follows the kept entries is the entry of the purge itself.
\* No other dashboard UID request removes an entry.
C32_PurgeByAge ==
    \A r \in Slots :
        /\ Done(r, "cleanup") /\ req[r].resp.status = 200
              => /\ SubSeq(log, 1, Len(log) - 1) = NotOlderThan(pre[r].log, AskedDays(r))
                 /\ req[r].resp.data.deletedCount
                       = Len(pre[r].log) - Len(NotOlderThan(pre[r].log, AskedDays(r)))
        /\ req[r].pc # "idle" /\ req[r].kind # "cleanup"
              => SubSeq(log, 1, Len(pre[r].log)) = pre[r].log

\* C33: when a dashboard Create or a paid API-key add has been answered, also
\* after a write to the store failed, a balance that the request lowered comes
\* with a record the request stored for that user and that value
C33_DebitHasRecord ==
    \A r \in Slots :
        LET u == req[r].userId IN
        /\ Done(r, "create") \/ Done(r, "api_add")
        /\ u \in DOMAIN credits /\ u \in DOMAIN pre[r].credits
        /\ credits[u] < pre[r].credits[u]
        => \E d \in uids \ pre[r].uids : d.userId = u /\ d.uidValue = req[r].uidValue

\* the settings row is missing, or its base URL or its API key is empty
NotConfigured == settings.baseUrl = "" \/ settings.apiKey = ""

\* C34: while the settings are not configured, every answered create,
\* value-update and delete request is a failure, has sent nothing to the
\* external service and has left balances, records and activity log as they
\* were
C34_NothingWithoutSettings ==
    \A r \in Slots :
        /\ Done(r, "create") \/ Done(r, "value") \/ Done(r, "delete")
        /\ NotConfigured
        => /\ Failure(r)
           /\ extLog = pre[r].extLog
           /\ credits = pre[r].credits
           /\ uids = pre[r].uids
           /\ log = pre[r].log

\* a delete request by the record's user that got as far as building the
\* client, with a base URL but no API key in the settings
C34_Witness ==
    \E r \in Slots :
        /\ Done(r, "delete")
        /\ settings.baseUrl # "" /\ settings.apiKey = ""
        /\ req[r].thrown.cause = "settings"
        /\ req[r].resp.status = 500

\* the key of a request is missing, unknown, disabled or paused
UnusableKey(key) ==
    \/ key = ""
    \/ key \notin DOMAIN lastUsed
    \/ ~ApiKeyDoc(key).isEnabled
    \/ ApiKeyDoc(key).isPaused

\* the requests of the API-key interface
ApiKinds == {"api_add_free", "api_add", "api_remove", "api_renew", "api_list"}

\* C35: a request to the API-key interface with a missing, unknown, disabled
\* or paused key is answered 401 or 403 and has changed no balance, no record,
\* no activity entry and no key's last-used time
C35_UnusableKeyChangesNothing ==
    \A r \in Slots :
        req[r].pc = "done" /\ req[r].kind \in ApiKinds /\ UnusableKey(req[r].key)
            => /\ req[r].resp.status \in {401, 403}
               /\ credits = pre[r].credits
               /\ uids = pre[r].uids
               /\ log = pre[r].log
               /\ lastUsed = pre[r].lastUsed

\* a paid add with the paused key k4, after key k2 has been used
C35_Witness ==
    \E r \in Slots :
        /\ Done(r, "api_add") /\ req[r].key = "k4"
        /\ req[r].resp.status = 403
        /\ lastUsed["k2"] # Never

\* C36: a paid add with a usable key, a UID and a plan id is answered with a
\* failure, no debit and no record when the plan is unknown or inactive or the
\* balance is lower than the plan's cost; answered with success, it has
\* lowered the balance by the plan's cost and stored one record with that
\* cost, the plan's days times 24 as duration, and status active
C36_PaidAdd ==
    \A r \in Slots :
        LET u == req[r].userId
            plan == PlanModel(req[r].planId)
        IN  /\ Done(r, "api_add") /\ req[r].key \in ApiKeys
            /\ req[r].uidValue # "" /\ req[r].planId # 0
            /\ u \in DOMAIN pre[r].credits
            => /\ (plan.code = 0 \/ ~plan.isActive \/ pre[r].credits[u] < plan.creditsCost)
                    => /\ Failure(r)
                       /\ credits = pre[r].credits
                       /\ uids = pre[r].uids
               /\ req[r].resp.status = 200
                    => /\ credits = [pre[r].credits EXCEPT ![u] = @ - plan.creditsCost]
                       /\ \E d \in uids :
                             /\ uids = pre[r].uids \cup {d} /\ d \notin pre[r].uids
                             /\ d.userId = u /\ d.uidValue = req[r].uidValue
                             /\ d.cost = plan.creditsCost
                             /\ d.duration = plan.days * 24
                             /\ d.status = "active"

\* u2, with 10.10, has bought plan 1 for 10.00 with key k2
C36_Witness ==
    \E r \in Slots :
        /\ Done(r, "api_add") /\ req[r].key = "k2" /\ req[r].planId = 1
        /\ req[r].resp.status = 200
        /\ credits["u2"] = 10

\* C37: with an external service that refuses to add a value it holds, no two
\* stored records carry the same UID value
C37_NoDuplicateValues ==
    \A d1, d2 \in uids : d1.uidValue = d2.uidValue => d1.id = d2.id

\* C38: the accounts with the owner flag are never removed, and a DELETE
\* /api/users/:id request for such an account is answered with a failure and
\* has left balances, records and activity entries as they were
C38_OwnerNotDeletable ==
    /\ \A u \in Owners : u \in DOMAIN credits
    /\ \A r \in Slots :
          Done(r, "delete_user") /\ req[r].userId \in Owners
              => /\ Failure(r)
                 /\ credits = pre[r].credits
                 /\ uids = pre[r].uids
                 /\ log = pre[r].log

\* the owner has asked to delete the owner account, which has an activity
\* entry, and has been answered 403
C38_Witness ==
    \E r \in Slots :
        /\ Done(r, "delete_user") /\ req[r].userId \in Owners
        /\ isOwner(req[r].caller)
        /\ req[r].resp.status = 403
        /\ \E i \in DOMAIN log : log[i].userId = req[r].userId

\* the response arrived with a successful status and a body that parses
Parsed2xx(response) ==
    response.settled = "response" /\ ok(response) /\ response.body.json

====
